---------------------------- MODULE Spec2Model ----------------------------
(***************************************************************************)
(* Model of the kubexplainer core: the rule-based field explainer          *)
(* (backend/app/services/explainer.py) and the manifest validator          *)
(* (kubexplainer/backend/app/services/yaml_service.py).                    *)
(*                                                                         *)
(* The core is a set of pure functions, so a behaviour is one call: the    *)
(* initial state holds the operation and its argument, the single step of  *)
(* the operation stores what it returns.  The settings routes              *)
(* (kubexplainer/backend/app/routes/settings_routes.py) work on the table  *)
(* of LLM connections, which the core does not touch.                      *)
(***************************************************************************)
EXTENDS Integers, Sequences, FiniteSets, TLC

VARIABLES op,    \* the operation that is called
          arg,   \* its argument
          ret,   \* what it returned, once pc is "done"
          pc,    \* "call" before the operation has run, "done" after
          store,    \* the committed rows of the table llm_connections
          sessions  \* the database sessions of the requests that are running

vars == <<op, arg, ret, pc, store, sessions>>

\* the table that init_db creates, and no request of the settings routes
EmptyStore == {}
NoSessions == <<>>

(***************************************************************************)
(* Python values. Every kind of value is a record with its own field name, *)
(* so two values of different kinds are unequal without being compared.    *)
(* A dict keeps its items in insertion order, as Python's dict does.       *)
(***************************************************************************)
None == [none |-> TRUE]
Str(s) == [s |-> s]
Num(n) == [n |-> n]
Dict(items) == [items |-> items]
List(elems) == [elems |-> elems]
Item(k, v) == [k |-> k, v |-> v]

IsNone(v) == DOMAIN v = {"none"}
IsStr(v) == DOMAIN v = {"s"}
IsNum(v) == DOMAIN v = {"n"}
IsDict(v) == DOMAIN v = {"items"}
IsList(v) == DOMAIN v = {"elems"}

\* bool(v)
Truthy(v) ==
  IF IsNone(v) THEN FALSE
  ELSE IF IsStr(v) THEN v.s # ""
  ELSE IF IsNum(v) THEN v.n # 0
  ELSE IF IsDict(v) THEN v.items # <<>>
  ELSE v.elems # <<>>

\* k in d
HasKey(d, k) == \E i \in 1..Len(d.items) : d.items[i].k = k

\* d.get(k, default)
Get(d, k, default) ==
  IF HasKey(d, k)
    THEN d.items[CHOOSE i \in 1..Len(d.items) : d.items[i].k = k].v
    ELSE default

\* the outcome of a call that raised instead of returning
Raised == [raised |-> TRUE]
DidRaise(r) == DOMAIN r = {"raised"}

\* str(v), as an f-string formats v
PyStr(v) ==
  IF IsNone(v) THEN "None"
  ELSE IF IsStr(v) THEN v.s
  ELSE IF IsNum(v) THEN ToString(v.n)
  ELSE IF IsDict(v) THEN "<dict>"
  ELSE "<list>"

(***************************************************************************)
(* Strings                                                                 *)
(***************************************************************************)
Char(s, i) == SubSeq(s, i, i)

\* k in s
Contains(s, k) ==
  \E i \in 1..(Len(s) - Len(k) + 1) : SubSeq(s, i, i + Len(k) - 1) = k

\* k in v, for v a dict, a str or a list (a number or None is not iterable)
PyIn(k, v) ==
  IF IsDict(v) THEN HasKey(v, k)
  ELSE IF IsStr(v) THEN Contains(v.s, k)
  ELSE IF IsList(v) THEN \E i \in 1..Len(v.elems) : v.elems[i] = Str(k)
  ELSE FALSE

\* s.endswith(k)
EndsWith(s, k) ==
  Len(k) <= Len(s) /\ SubSeq(s, Len(s) - Len(k) + 1, Len(s)) = k

IsDigit(c) == c \in {"0", "1", "2", "3", "4", "5", "6", "7", "8", "9"}

UpperCase == "ABCDEFGHIJKLMNOPQRSTUVWXYZ"
LowerCase == "abcdefghijklmnopqrstuvwxyz"

LowerChar(c) ==
  IF \E i \in 1..Len(UpperCase) : Char(UpperCase, i) = c
    THEN Char(LowerCase, CHOOSE i \in 1..Len(UpperCase) : Char(UpperCase, i) = c)
    ELSE c

\* s.lower()
RECURSIVE Lower(_)
Lower(s) ==
  IF s = "" THEN "" ELSE LowerChar(Char(s, 1)) \o Lower(SubSeq(s, 2, Len(s)))

\* the position after the run of digits that starts at i
RECURSIVE DigitsEnd(_, _)
DigitsEnd(s, i) ==
  IF i <= Len(s) /\ IsDigit(Char(s, i)) THEN DigitsEnd(s, i + 1) ELSE i

\* re.sub(r'\.\d+\.', '[].', s), scanning from position i: matches are
\* taken leftmost and do not overlap
RECURSIVE SubInnerIndex(_, _)
SubInnerIndex(s, i) ==
  IF i > Len(s) THEN ""
  ELSE LET e == DigitsEnd(s, i + 1)
       IN IF Char(s, i) = "." /\ e > i + 1 /\ e <= Len(s) /\ Char(s, e) = "."
            THEN "[]." \o SubInnerIndex(s, e + 1)
            ELSE Char(s, i) \o SubInnerIndex(s, i + 1)

\* re.sub(r'\.\d+$', '[]', s)
SubLastIndex(s) ==
  LET IsMatch(i) == Char(s, i) = "." /\ DigitsEnd(s, i + 1) = Len(s) + 1
  IN IF \E i \in 1..(Len(s) - 1) : IsMatch(i)
       THEN SubSeq(s, 1, (CHOOSE i \in 1..(Len(s) - 1) : IsMatch(i)) - 1) \o "[]"
       ELSE s

\* array_path of explain_field
ArrayPath(path) == SubLastIndex(SubInnerIndex(path, 1))

(***************************************************************************)
(* The explanation table, in declaration order: <<key, explanation>>       *)
(***************************************************************************)
FIELD_EXPLANATIONS ==
  <<
    <<"metadata",
      "Contains metadata about the Kubernetes object, including its name, namespace, labels, and annotations.">>,
    <<"metadata.name",
      "The unique name of this resource within its namespace. Must be a valid DNS subdomain name.">>,
    <<"metadata.namespace",
      "The namespace in which this resource exists. Namespaces provide scope for resource names and enable resource quotas and access control.">>,
    <<"metadata.labels",
      "Key-value pairs for identifying, selecting, and grouping Kubernetes objects. Used by selectors in Services, ReplicaSets, and more.">>,
    <<"metadata.annotations",
      "Non-identifying metadata stored as key-value pairs. Used for storing arbitrary information like build info, monitoring configs, or tool-specific data.">>,
    <<"metadata.creationTimestamp",
      "Timestamp when this resource was created in the cluster. Set automatically by Kubernetes.">>,
    <<"metadata.resourceVersion",
      "An opaque value representing the internal version of this object. Used for optimistic concurrency control.">>,
    <<"metadata.uid",
      "A unique identifier for this object across the entire cluster. Generated automatically.">>,
    <<"spec",
      "Defines the desired state and behavior of this resource. The actual specification varies by resource type.">>,
    <<"spec.replicas",
      "Defines the desired number of pod replicas. The ReplicaSet controller ensures this many pods are running at all times.">>,
    <<"spec.selector",
      "Defines how to identify pods that belong to this resource. Must match the pod template labels.">>,
    <<"spec.selector.matchLabels",
      "Key-value pairs that must all match for a pod to be selected. This is an AND operation across all labels.">>,
    <<"spec.selector.matchExpressions",
      "More complex label selection criteria using set-based operators like In, NotIn, Exists, and DoesNotExist.">>,
    <<"spec.template",
      "Defines the pod template used to create new pods. Contains metadata and spec for the pods.">>,
    <<"spec.template.metadata",
      "Metadata for pods created from this template, including labels that must match the selector.">>,
    <<"spec.template.metadata.labels",
      "Labels applied to all pods created from this template. Must match the parent resource's selector.">>,
    <<"spec.template.spec",
      "The specification for pods created from this template, defining containers, volumes, and pod-level settings.">>,
    <<"spec.template.spec.containers",
      "List of containers to run in each pod. At least one container is required.">>,
    <<"spec.containers",
      "List of containers to run in this pod. Each container runs as an isolated process within the pod's namespace.">>,
    <<"containers[].name",
      "The name of this container within the pod. Must be unique within the pod and follow DNS label rules.">>,
    <<"containers[].image",
      "The Docker/OCI container image to run. Format: [registry/]repository[:tag|@digest]. If no tag is specified, 'latest' is assumed.">>,
    <<"containers[].imagePullPolicy",
      "Determines when the kubelet pulls the image. Options: Always (always pull), IfNotPresent (pull if not cached), Never (never pull, use cached only).">>,
    <<"containers[].command",
      "The container's entrypoint command array. Overrides the Docker image's ENTRYPOINT. If not provided, the image's ENTRYPOINT is used.">>,
    <<"containers[].args",
      "Arguments passed to the container's command. Overrides the Docker image's CMD. Combined with 'command' if both are specified.">>,
    <<"containers[].env",
      "Environment variables to set in the container. Can be specified directly or sourced from ConfigMaps, Secrets, or other sources.">>,
    <<"containers[].ports",
      "List of ports to expose from the container. Primarily informational - doesn't prevent the container from binding to additional ports.">>,
    <<"containers[].resources",
      "Compute resource requirements and limits for this container. Affects scheduling and runtime behavior.">>,
    <<"containers[].volumeMounts",
      "Paths in the container's filesystem where volumes should be mounted.">>,
    <<"containers[].livenessProbe",
      "Health check to determine if the container is running. If it fails repeatedly, the container is restarted.">>,
    <<"containers[].readinessProbe",
      "Health check to determine if the container is ready to serve traffic. Failed probes remove the pod from service endpoints.">>,
    <<"containers[].startupProbe",
      "Health check for slow-starting containers. Disables liveness/readiness probes until it succeeds, preventing premature restarts.">>,
    <<"containers[].securityContext",
      "Security settings for this container, such as running as a specific user, capabilities, or read-only filesystem.">>,
    <<"containers[].resources.requests",
      "Minimum resources guaranteed to this container. Used by the scheduler to place pods on nodes with sufficient capacity.">>,
    <<"containers[].resources.limits",
      "Maximum resources this container can use. Container will be throttled (CPU) or killed (memory) if limits are exceeded.">>,
    <<"containers[].resources.requests.cpu",
      "Minimum CPU units guaranteed. Specified in cores (e.g., '500m' = 0.5 cores). Used for scheduling.">>,
    <<"containers[].resources.requests.memory",
      "Minimum memory guaranteed. Specified in bytes (e.g., '256Mi', '1Gi'). Used for scheduling.">>,
    <<"containers[].resources.limits.cpu",
      "Maximum CPU units allowed. Container is throttled if it tries to exceed this. Specified in cores.">>,
    <<"containers[].resources.limits.memory",
      "Maximum memory allowed. Container is killed (OOMKilled) if it exceeds this limit. Specified in bytes.">>,
    <<"containers[].ports[].containerPort",
      "The port number this container listens on. Must be between 1-65535.">>,
    <<"containers[].ports[].protocol",
      "The network protocol for this port. Options: TCP (default), UDP, or SCTP.">>,
    <<"containers[].ports[].name",
      "Optional name for this port. Can be referenced by Services and useful for service discovery.">>,
    <<"containers[].ports[].hostPort",
      "Port number on the host to forward to this container port. Limits pod scheduling to nodes where the port is available.">>,
    <<"containers[].env[].name",
      "The name of the environment variable as it appears in the container.">>,
    <<"containers[].env[].value",
      "The literal string value of the environment variable.">>,
    <<"containers[].env[].valueFrom",
      "Source for the environment variable's value, such as a ConfigMap, Secret, or field reference.">>,
    <<"containers[].env[].valueFrom.configMapKeyRef",
      "Populates the environment variable from a key in a ConfigMap.">>,
    <<"containers[].env[].valueFrom.secretKeyRef",
      "Populates the environment variable from a key in a Secret. The value is kept confidential.">>,
    <<"containers[].env[].valueFrom.fieldRef",
      "Populates the environment variable from a pod field like metadata.name or status.podIP.">>,
    <<"spec.volumes",
      "List of volumes that can be mounted by containers in this pod. Defines storage sources.">>,
    <<"volumes[].name",
      "The name of this volume. Must be unique within the pod and referenced by container volumeMounts.">>,
    <<"volumes[].emptyDir",
      "A temporary directory that shares a pod's lifetime. Starts empty and is deleted when the pod is removed.">>,
    <<"volumes[].hostPath",
      "Mounts a file or directory from the host node's filesystem. Useful for system-level operations but not portable.">>,
    <<"volumes[].configMap",
      "Mounts a ConfigMap as files. Each key becomes a file, and its value becomes the file content.">>,
    <<"volumes[].secret",
      "Mounts a Secret as files. Each key becomes a file with base64-decoded content. Used for sensitive data.">>,
    <<"volumes[].persistentVolumeClaim",
      "Mounts a PersistentVolumeClaim, providing persistent storage that survives pod restarts and rescheduling.">>,
    <<"containers[].volumeMounts[].name",
      "The name of the volume to mount. Must match a volume defined in spec.volumes.">>,
    <<"containers[].volumeMounts[].mountPath",
      "The absolute path in the container where the volume should be mounted.">>,
    <<"containers[].volumeMounts[].readOnly",
      "If true, the volume is mounted as read-only. Default is false (read-write).">>,
    <<"containers[].volumeMounts[].subPath",
      "A specific file or subdirectory within the volume to mount, rather than the entire volume.">>,
    <<"livenessProbe.httpGet",
      "Performs an HTTP GET request to check container health. Success is any status code between 200-399.">>,
    <<"readinessProbe.httpGet",
      "Performs an HTTP GET request to check if the container is ready for traffic.">>,
    <<"livenessProbe.exec",
      "Executes a command inside the container. Exit code 0 indicates success.">>,
    <<"readinessProbe.exec",
      "Executes a command to check readiness. Exit code 0 means the container is ready.">>,
    <<"livenessProbe.tcpSocket",
      "Attempts to open a TCP connection to the specified port. Success means the port is open.">>,
    <<"readinessProbe.tcpSocket",
      "Checks readiness by attempting a TCP connection to the specified port.">>,
    <<"livenessProbe.initialDelaySeconds",
      "Number of seconds to wait after the container starts before performing the first probe.">>,
    <<"livenessProbe.periodSeconds",
      "How often (in seconds) to perform the probe. Default is 10 seconds.">>,
    <<"livenessProbe.timeoutSeconds",
      "Number of seconds after which the probe times out. Default is 1 second.">>,
    <<"livenessProbe.successThreshold",
      "Minimum consecutive successes for the probe to be considered successful after a failure. Default is 1.">>,
    <<"livenessProbe.failureThreshold",
      "Number of consecutive failures before the container is restarted (liveness) or marked unready (readiness). Default is 3.">>,
    <<"spec.type",
      "Determines how the Service is exposed. Options: ClusterIP (internal only), NodePort (exposed on each node), LoadBalancer (cloud load balancer), ExternalName (DNS alias).">>,
    <<"spec.clusterIP",
      "The internal IP address assigned to this Service. Automatically assigned by Kubernetes unless explicitly set or set to 'None' for headless services.">>,
    <<"spec.ports",
      "List of ports that are exposed by this Service. Each port maps a Service port to a target port on the pods.">>,
    <<"spec.ports[].port",
      "The port that this Service listens on. Other services and pods connect to this port.">>,
    <<"spec.ports[].targetPort",
      "The port on the pod to forward traffic to. Can be a number or a named port from the pod's port list.">>,
    <<"spec.ports[].nodePort",
      "For NodePort or LoadBalancer Services, the port exposed on every node. Must be in the range 30000-32767.">>,
    <<"spec.ports[].protocol",
      "The protocol for this Service port. Usually TCP or UDP.">>,
    <<"spec.sessionAffinity",
      "Whether to enable session affinity. 'ClientIP' routes requests from the same client IP to the same pod. Default is 'None'.">>,
    <<"spec.externalTrafficPolicy",
      "Controls how external traffic is routed. 'Cluster' (default) allows any node to handle traffic. 'Local' preserves client IPs but requires local pods.">>,
    <<"spec.strategy",
      "Defines how pods are replaced during updates. Options: RollingUpdate (gradual replacement) or Recreate (all pods killed before new ones start).">>,
    <<"spec.strategy.type",
      "The deployment strategy type: RollingUpdate or Recreate.">>,
    <<"spec.strategy.rollingUpdate",
      "Parameters for a rolling update strategy.">>,
    <<"spec.strategy.rollingUpdate.maxSurge",
      "Maximum number of pods that can be created above the desired replica count during an update. Can be a number or percentage.">>,
    <<"spec.strategy.rollingUpdate.maxUnavailable",
      "Maximum number of pods that can be unavailable during an update. Can be a number or percentage.">>,
    <<"spec.revisionHistoryLimit",
      "Number of old ReplicaSets to retain for rollback purposes. Default is 10.">>,
    <<"spec.progressDeadlineSeconds",
      "Maximum time in seconds for a deployment to make progress before it's considered failed. Default is 600 seconds.">>,
    <<"spec.minReadySeconds",
      "Minimum number of seconds a newly created pod should be ready before it's considered available. Used to prevent flapping.">>,
    <<"spec.rules",
      "List of host and path-based routing rules for this Ingress. Defines how external requests are routed to Services.">>,
    <<"spec.rules[].host",
      "The fully qualified domain name for this rule. Requests to this hostname follow these routing rules.">>,
    <<"spec.rules[].http",
      "HTTP-specific routing rules for this host.">>,
    <<"spec.rules[].http.paths",
      "List of path-based routing rules. Requests matching a path are forwarded to the specified backend.">>,
    <<"spec.rules[].http.paths[].path",
      "URL path prefix to match. Requests starting with this path are routed to the backend.">>,
    <<"spec.rules[].http.paths[].pathType",
      "How to interpret the path. Options: Exact (exact match), Prefix (path prefix), ImplementationSpecific.">>,
    <<"spec.rules[].http.paths[].backend",
      "The Service to route matching requests to.">>,
    <<"spec.rules[].http.paths[].backend.service",
      "Specifies the Service backend for this path.">>,
    <<"spec.rules[].http.paths[].backend.service.name",
      "The name of the Service to route traffic to.">>,
    <<"spec.rules[].http.paths[].backend.service.port",
      "The port on the Service to forward traffic to.">>,
    <<"spec.tls",
      "TLS/HTTPS configuration for this Ingress. Defines certificates and which hosts use HTTPS.">>,
    <<"spec.tls[].hosts",
      "List of hosts that should use this TLS certificate.">>,
    <<"spec.tls[].secretName",
      "Name of the Secret containing the TLS certificate and private key.">>,
    <<"data",
      "Key-value pairs of configuration data. Each key is a filename or variable name, and each value is the content.">>,
    <<"binaryData",
      "Binary data stored as base64-encoded strings. Used for non-UTF8 data like images or compiled binaries.">>,
    <<"type",
      "The type of Secret. Common types: Opaque (arbitrary data), kubernetes.io/tls (TLS certificate), kubernetes.io/dockerconfigjson (Docker registry auth).">>,
    <<"stringData",
      "Key-value pairs of secret data in plain text. Automatically base64-encoded when stored. Useful for creating Secrets declaratively.">>,
    <<"spec.accessModes",
      "How the volume can be mounted. Options: ReadWriteOnce (single node read-write), ReadOnlyMany (multiple nodes read-only), ReadWriteMany (multiple nodes read-write).">>,
    <<"spec.resources",
      "Resource requirements for the persistent volume, primarily storage capacity.">>,
    <<"spec.resources.requests.storage",
      "The amount of storage requested. Format: '1Gi', '500Mi', '1Ti', etc.">>,
    <<"spec.storageClassName",
      "The name of the StorageClass to use. Determines the type of storage (SSD, HDD, etc.) and the provisioner.">>,
    <<"spec.volumeMode",
      "Defines whether the volume is a filesystem (default) or a raw block device.">>,
    <<"spec.serviceName",
      "The name of the Service that governs this StatefulSet. Used for network identity of the pods.">>,
    <<"spec.podManagementPolicy",
      "How pods are created and scaled. 'OrderedReady' (default) creates pods sequentially. 'Parallel' creates all pods simultaneously.">>,
    <<"spec.volumeClaimTemplates",
      "Templates for PersistentVolumeClaims. Each pod gets its own persistent volume based on these templates.">>,
    <<"spec.updateStrategy",
      "How DaemonSet pods are updated. 'RollingUpdate' updates pods gradually. 'OnDelete' updates only when pods are manually deleted.">>,
    <<"spec.completions",
      "The desired number of successfully completed pods. Job continues until this many pods have succeeded.">>,
    <<"spec.parallelism",
      "Maximum number of pods that can run in parallel. Controls job concurrency.">>,
    <<"spec.backoffLimit",
      "Number of retries before considering the Job as failed. Default is 6.">>,
    <<"spec.activeDeadlineSeconds",
      "Maximum duration in seconds that the Job can run. Job is terminated if it exceeds this time.">>,
    <<"spec.schedule",
      "Cron schedule for running the Job. Format: 'minute hour day month weekday' (e.g., '0 0 * * *' for daily at midnight).">>,
    <<"spec.jobTemplate",
      "Template for the Job to be created on each schedule run.">>,
    <<"spec.successfulJobsHistoryLimit",
      "Number of successful Job history entries to keep. Default is 3.">>,
    <<"spec.failedJobsHistoryLimit",
      "Number of failed Job history entries to keep. Default is 1.">>,
    <<"spec.concurrencyPolicy",
      "How to handle concurrent Job executions. Options: Allow, Forbid, Replace.">>,
    <<"status",
      "The current observed state of this resource. Automatically managed by Kubernetes controllers.">>,
    <<"status.phase",
      "High-level summary of where the resource is in its lifecycle.">>,
    <<"status.conditions",
      "Detailed list of conditions representing the status of different aspects of the resource.">>,
    <<"status.replicas",
      "The actual number of pod replicas currently running.">>,
    <<"status.readyReplicas",
      "The number of pod replicas that are ready to serve traffic.">>,
    <<"status.availableReplicas",
      "The number of pod replicas that are available (ready for at least minReadySeconds).">>
  >>

FieldKey(i) == FIELD_EXPLANATIONS[i][1]
FieldText(i) == FIELD_EXPLANATIONS[i][2]
NumFields == Len(FIELD_EXPLANATIONS)

\* path in self.field_explanations
IsFieldKey(path) == \E i \in 1..NumFields : FieldKey(i) = path

\* self.field_explanations[path]
FieldLookup(path) == FieldText(CHOOSE i \in 1..NumFields : FieldKey(i) = path)

\* the condition of the partial-match loop for one key
PartialMatch(array_path, key) ==
  EndsWith(array_path, key) \/ Contains(array_path, key)

\* PartialScan with the loop keeping the last key that matches
PartialScanLast(array_path) ==
  LET matching == {i \in 1..NumFields : PartialMatch(array_path, FieldKey(i))}
  IN IF matching = {} THEN None
     ELSE Str(FieldText(CHOOSE i \in matching : \A j \in matching : i >= j))

\* the partial-match loop: the keys are tried in declaration order and the
\* first one that matches returns; None when the loop runs out
PartialScan(array_path) ==
  LET matching == {i \in 1..NumFields : PartialMatch(array_path, FieldKey(i))}
  IN IF matching = {} THEN None
     ELSE Str(FieldText(CHOOSE i \in matching : \A j \in matching : i <= j))

NameText == "The name identifier for this resource or sub-resource."
NamespaceText == "The namespace scope for this resource."
LabelText == "Labels are key-value pairs used for identification and selection."
AnnotationText == "Annotations store arbitrary non-identifying metadata."

\* GenericFallback testing the path as written, without lower()
GenericFallbackCaseSensitive(path) ==
  IF Contains(path, "name") THEN Str(NameText)
  ELSE IF Contains(path, "namespace") THEN Str(NamespaceText)
  ELSE IF Contains(path, "label") THEN Str(LabelText)
  ELSE IF Contains(path, "annotation") THEN Str(AnnotationText)
  ELSE None

\* the generic fallbacks of explain_field
GenericFallback(path) ==
  IF Contains(Lower(path), "name") THEN Str(NameText)
  ELSE IF Contains(Lower(path), "namespace") THEN Str(NamespaceText)
  ELSE IF Contains(Lower(path), "label") THEN Str(LabelText)
  ELSE IF Contains(Lower(path), "annotation") THEN Str(AnnotationText)
  ELSE None

\* K8sExplainer.explain_field
explain_field(path, value) ==
  IF IsFieldKey(path) THEN Str(FieldLookup(path))
  ELSE LET partial == PartialScan(ArrayPath(path))
       IN IF partial # None THEN partial ELSE GenericFallback(path)

(***************************************************************************)
(* Calls of explain_field                                                  *)
(***************************************************************************)
MaxSegs == 3
MaxIndex == 12

FieldNames ==
  {"spec", "containers", "image", "name", "Namespace", "Labels",
   "annotations", "kind"}

IndexSegments == {ToString(n) : n \in {0, MaxIndex}}

Segments == FieldNames \cup IndexSegments

\* the dotted paths of n segments
SegPaths[n \in 1..MaxSegs] ==
  IF n = 1 THEN Segments
  ELSE {p \o "." \o s : p \in SegPaths[n - 1], s \in Segments}

\* the paths that the comments of explain_field and the table's array keys
\* are about
IndexedPaths ==
  {pre \o "." \o ToString(n) \o "." \o leaf :
     pre \in {"spec.template.spec.containers"}, n \in 0..MaxIndex, leaf \in {"image"}}
  \cup {"spec.ports." \o ToString(n) \o ".port" : n \in 0..MaxIndex}
  \cup {"spec.rules." \o ToString(n) \o ".host" : n \in 0..MaxIndex}

Paths == UNION {SegPaths[n] : n \in 1..MaxSegs} \cup IndexedPaths \cup {"containers[].image"}

FieldValues == {Str("nginx:latest"), Num(80), List(<<>>)}

InitExplain ==
  /\ op = "explain_field"
  /\ arg \in [path : Paths, value : {Str("nginx:latest")}]
             \cup [path : IndexedPaths, value : FieldValues]
  /\ ret = None
  /\ store = EmptyStore
  /\ sessions = NoSessions
  /\ pc = "call"

ExplainField ==
  /\ op = "explain_field"
  /\ pc = "call"
  /\ pc' = "done"
  /\ ret' = explain_field(arg.path, arg.value)
  /\ UNCHANGED <<op, arg, store, sessions>>

NextExplain == ExplainField

SpecExplain == InitExplain /\ [][NextExplain]_vars

(***************************************************************************)
(* walk_and_explain                                                        *)
(***************************************************************************)
\* the "value" of an entry: the value itself, or the tag of a composite
EntryValue(value) ==
  IF IsDict(value) THEN Str("<dict>")
  ELSE IF IsList(value) THEN Str("<list>")
  ELSE value

\* the dict appended for a field that has an explanation
Entry(current_path, value, explanation) ==
  [path |-> current_path, value |-> EntryValue(value),
   explanation |-> explanation.s, source |-> "rule-based"]

RECURSIVE walk_and_explain(_, _, _)
RECURSIVE WalkItems(_, _, _, _)
RECURSIVE WalkElems(_, _, _, _)
RECURSIVE WalkItemsChildrenFirst(_, _, _, _)
RECURSIVE WalkElemsLookedUp(_, _, _, _)

\* WalkItems recursing into the value before it appends the entry of the key
WalkItemsChildrenFirst(items, i, path, explanations) ==
  IF i > Len(items) THEN explanations
  ELSE LET key == items[i].k
           value == items[i].v
           current_path == IF path # "" THEN path \o "." \o key ELSE key
           explanation == explain_field(current_path, value)
           recursed == IF IsDict(value) \/ IsList(value)
                         THEN walk_and_explain(value, current_path, explanations)
                         ELSE explanations
           appended == IF Truthy(explanation)
                         THEN Append(recursed, Entry(current_path, value, explanation))
                         ELSE recursed
       IN WalkItemsChildrenFirst(items, i + 1, path, appended)

\* the loop over obj.items(), from the i-th item on
WalkItems(items, i, path, explanations) ==
  IF i > Len(items) THEN explanations
  ELSE LET key == items[i].k
           value == items[i].v
           current_path == IF path # "" THEN path \o "." \o key ELSE key
           explanation == explain_field(current_path, value)
           appended == IF Truthy(explanation)
                         THEN Append(explanations, Entry(current_path, value, explanation))
                         ELSE explanations
           recursed == IF IsDict(value) \/ IsList(value)
                         THEN walk_and_explain(value, current_path, appended)
                         ELSE appended
       IN WalkItems(items, i + 1, path, recursed)

\* WalkElems looking every element up as if it were a field
WalkElemsLookedUp(elems, idx, path, explanations) ==
  IF idx >= Len(elems) THEN explanations
  ELSE LET item == elems[idx + 1]
           current_path == IF path # "" THEN path \o "." \o ToString(idx)
                                        ELSE ToString(idx)
           explanation == explain_field(current_path, item)
           appended == IF Truthy(explanation)
                         THEN Append(explanations, Entry(current_path, item, explanation))
                         ELSE explanations
       IN WalkElemsLookedUp(elems, idx + 1, path,
                            walk_and_explain(item, current_path, appended))

\* the loop over enumerate(obj), from the element of index idx on
WalkElems(elems, idx, path, explanations) ==
  IF idx >= Len(elems) THEN explanations
  ELSE LET item == elems[idx + 1]
           current_path == IF path # "" THEN path \o "." \o ToString(idx)
                                        ELSE ToString(idx)
       IN WalkElems(elems, idx + 1, path,
                    walk_and_explain(item, current_path, explanations))

\* K8sExplainer.walk_and_explain; explanations is the list that the calls
\* share and append to
walk_and_explain(obj, path, explanations) ==
  IF IsDict(obj) THEN WalkItems(obj.items, 1, path, explanations)
  ELSE IF IsList(obj) THEN WalkElems(obj.elems, 0, path, explanations)
  ELSE explanations

(***************************************************************************)
(* Calls of walk_and_explain                                               *)
(***************************************************************************)
MaxWidth == 2

TreeKeys == {"spec", "kind"}
Scalars == {Str("nginx:latest")}

\* the item sequences of at most MaxWidth items over the values V
ItemSeqs(V) ==
  UNION {[1..n -> [k : TreeKeys, v : V]] : n \in 0..MaxWidth}

\* the dicts over V: the keys of a dict are distinct
DictsOver(V) ==
  {Dict(items) : items \in
     {its \in ItemSeqs(V) :
        \A i, j \in 1..Len(its) : its[i].k = its[j].k => i = j}}

ListsOver(V) ==
  {List(elems) : elems \in UNION {[1..n -> V] : n \in 0..MaxWidth}}

Level1 == Scalars \cup DictsOver(Scalars) \cup ListsOver(Scalars)
Level2 == Scalars \cup DictsOver(Level1) \cup ListsOver(Level1)

\* the trees walked: the composites of Level2 and the dicts that hold one
\* value of Level2
Trees ==
  (Level2 \ Scalars)
    \cup {Dict(<<Item(k, v)>>) : k \in TreeKeys, v \in Level2}

Prefixes == {"", "items"}

InitWalk ==
  /\ op = "walk_and_explain"
  /\ arg \in [obj : Trees, path : Prefixes]
  /\ ret = None
  /\ store = EmptyStore
  /\ sessions = NoSessions
  /\ pc = "call"

Walk ==
  /\ op = "walk_and_explain"
  /\ pc = "call"
  /\ pc' = "done"
  /\ ret' = walk_and_explain(arg.obj, arg.path, <<>>)
  /\ UNCHANGED <<op, arg, store, sessions>>

NextWalk == Walk

SpecWalk == InitWalk /\ [][NextWalk]_vars

(***************************************************************************)
(* YAMLService: extract_resources and validate_structure                   *)
(***************************************************************************)
EmptyDict == Dict(<<>>)

(***************************************************************************)
(* YAMLService.parse. The text is read by the YAML loader, which is not    *)
(* part of the program: a text is modelled by what load_all does with it,  *)
(* the sequence of the values it yields, ended or not by the error it      *)
(* raises.                                                                 *)
(***************************************************************************)
Loaded(value) == [loaded |-> value]
LoadError(message) == [error |-> message]
IsLoadError(event) == DOMAIN event = {"error"}

\* the length of an element of the sequence that dict() is given, -1 for
\* an element that is no sequence
PairLen(e) ==
  IF IsStr(e) THEN Len(e.s)
  ELSE IF IsList(e) THEN Len(e.elems)
  ELSE IF IsDict(e) THEN Len(e.items)
  ELSE -1

\* the key and the value that dict() takes from an element of length 2;
\* the keys of the modelled dicts are strings, a key that is none is kept
\* as what str() makes of it
PairOf(e) ==
  IF IsStr(e) THEN Item(Char(e.s, 1), Str(Char(e.s, 2)))
  ELSE IF IsList(e) THEN Item(PyStr(e.elems[1]), e.elems[2])
  ELSE Item(e.items[1].k, Str(e.items[2].k))

\* d[item.k] = item.v
SetItem(items, item) ==
  IF \E i \in 1..Len(items) : items[i].k = item.k
    THEN [i \in 1..Len(items) |-> IF items[i].k = item.k THEN item ELSE items[i]]
    ELSE Append(items, item)

\* dict() of the elements of a sequence, from the i-th on
RECURSIVE DictFromPairs(_, _, _)
DictFromPairs(elems, i, items) ==
  IF i > Len(elems) THEN items
  ELSE DictFromPairs(elems, i + 1, SetItem(items, PairOf(elems[i])))

\* the elements that dict(doc) iterates over
DictElements(doc) ==
  IF IsList(doc) THEN doc.elems
  ELSE [i \in 1..Len(doc.s) |-> Str(Char(doc.s, i))]

\* the first element that dict(doc) cannot take as a pair, 0 if none
FirstBadPair(doc) ==
  LET elems == DictElements(doc)
      bad == {i \in 1..Len(elems) :
                \/ PairLen(elems[i]) # 2
                \/ /\ IsList(elems[i])
                   /\ IsList(elems[i].elems[1]) \/ IsDict(elems[i].elems[1])}
  IN IF bad = {} THEN 0 ELSE CHOOSE i \in bad : \A j \in bad : i <= j

\* dict(doc) raises
DictRaises(doc) ==
  IF IsDict(doc) THEN FALSE
  ELSE IF IsNum(doc) THEN TRUE
  ELSE FirstBadPair(doc) # 0

\* str(e) of the exception that dict(doc) raises
DictError(doc) ==
  IF IsNum(doc) THEN "'int' object is not iterable"
  ELSE LET n == FirstBadPair(doc)
           e == DictElements(doc)[n]
       IN IF PairLen(e) = -1
            THEN "cannot convert dictionary update sequence element #"
                   \o ToString(n - 1) \o " to a sequence"
          ELSE IF PairLen(e) # 2
            THEN "dictionary update sequence element #" \o ToString(n - 1)
                   \o " has length " \o ToString(PairLen(e)) \o "; 2 is required"
          ELSE "unhashable type: '"
                 \o (IF IsList(e.elems[1]) THEN "list" ELSE "dict") \o "'"

\* dict(doc)
PyDict(doc) ==
  IF IsDict(doc) THEN doc
  ELSE Dict(DictFromPairs(DictElements(doc), 1, <<>>))

\* ParseFailure with the documents loaded so far returned
ParseFailureWithDocuments(documents, message) ==
  [ok |-> FALSE, documents |-> documents,
   error |-> "YAML parsing error: " \o message]

\* the except clause of parse
ParseFailure(documents, message) ==
  [ok |-> FALSE, documents |-> <<>>,
   error |-> "YAML parsing error: " \o message]

\* ParseFrom with the null documents converted as the others are
RECURSIVE ParseFromWithNulls(_, _, _)
ParseFromWithNulls(stream, i, documents) ==
  IF i > Len(stream)
    THEN IF documents = <<>>
           THEN [ok |-> FALSE, documents |-> <<>>,
                 error |-> "No valid YAML documents found"]
           ELSE [ok |-> TRUE, documents |-> documents, error |-> ""]
  ELSE IF IsLoadError(stream[i]) THEN ParseFailure(documents, stream[i].error)
  ELSE LET doc == stream[i].loaded
       IN IF IsNone(doc)
            THEN ParseFailure(documents, "'NoneType' object is not iterable")
          ELSE IF DictRaises(doc) THEN ParseFailure(documents, DictError(doc))
          ELSE ParseFromWithNulls(stream, i + 1, Append(documents, PyDict(doc)))

\* the body of parse from the i-th document of the stream on, with the
\* documents appended so far
RECURSIVE ParseFrom(_, _, _)
ParseFrom(stream, i, documents) ==
  IF i > Len(stream)
    THEN IF documents = <<>>
           THEN [ok |-> FALSE, documents |-> <<>>,
                 error |-> "No valid YAML documents found"]
           ELSE [ok |-> TRUE, documents |-> documents, error |-> ""]
  ELSE IF IsLoadError(stream[i]) THEN ParseFailure(documents, stream[i].error)
  ELSE LET doc == stream[i].loaded
       IN IF IsNone(doc) THEN ParseFrom(stream, i + 1, documents)
          ELSE IF DictRaises(doc) THEN ParseFailure(documents, DictError(doc))
          ELSE ParseFrom(stream, i + 1, Append(documents, PyDict(doc)))

\* YAMLService.parse
parse(stream) == ParseFrom(stream, 1, <<>>)

(***************************************************************************)
(* YAMLService.extract_resources                                           *)
(***************************************************************************)
\* ExtractFrom with every resource put before the ones extracted so far
RECURSIVE ExtractFromReversed(_, _)
ExtractFromReversed(documents, i) ==
  IF i > Len(documents) THEN <<>>
  ELSE LET doc == documents[i]
           kind == Get(doc, "kind", None)
           api_version == Get(doc, "apiVersion", None)
           metadata == Get(doc, "metadata", EmptyDict)
           resource == Dict(<<Item("kind", kind),
                              Item("api_version", api_version),
                              Item("name", Get(metadata, "name", None)),
                              Item("namespace", Get(metadata, "namespace", None)),
                              Item("content", doc)>>)
       IN IF ~IsDict(doc) THEN ExtractFromReversed(documents, i + 1)
          ELSE IF ~Truthy(kind) \/ ~Truthy(api_version)
            THEN ExtractFromReversed(documents, i + 1)
          ELSE ExtractFromReversed(documents, i + 1) \o <<resource>>

\* YAMLService.extract_resources, from the i-th document on
RECURSIVE ExtractFrom(_, _)
ExtractFrom(documents, i) ==
  IF i > Len(documents) THEN <<>>
  ELSE LET doc == documents[i]
           kind == Get(doc, "kind", None)
           api_version == Get(doc, "apiVersion", None)
           metadata == Get(doc, "metadata", EmptyDict)
           resource == Dict(<<Item("kind", kind),
                              Item("api_version", api_version),
                              Item("name", Get(metadata, "name", None)),
                              Item("namespace", Get(metadata, "namespace", None)),
                              Item("content", doc)>>)
       IN IF ~IsDict(doc) THEN ExtractFrom(documents, i + 1)
          ELSE IF ~Truthy(kind) \/ ~Truthy(api_version)
            THEN ExtractFrom(documents, i + 1)
          ELSE <<resource>> \o ExtractFrom(documents, i + 1)

extract_resources(documents) == ExtractFrom(documents, 1)

\* extract_resources raises: metadata.get of a metadata that is no dict, in
\* a document that has a kind and an apiVersion
extract_raises(documents) ==
  \E i \in 1..Len(documents) :
    LET doc == documents[i]
    IN /\ IsDict(doc)
       /\ Truthy(Get(doc, "kind", None))
       /\ Truthy(Get(doc, "apiVersion", None))
       /\ ~IsDict(Get(doc, "metadata", EmptyDict))

Issue(severity, path, message, suggestion) ==
  [severity |-> severity, path |-> path, message |-> message,
   suggestion |-> suggestion]

\* the loop over selector_labels.items(), from the i-th item on
RECURSIVE LabelIssues(_, _, _)
LabelIssues(selector_items, i, template_labels) ==
  IF i > Len(selector_items) THEN <<>>
  ELSE LET key == selector_items[i].k
           value == selector_items[i].v
           rest == LabelIssues(selector_items, i + 1, template_labels)
       IN IF Get(template_labels, key, None) # value
            THEN <<Issue("warning", "spec.selector.matchLabels",
                         "Selector label '" \o key \o "' doesn't match template labels",
                         "Ensure selector.matchLabels match template.metadata.labels")>>
                   \o rest
            ELSE rest

\* the else branch of _validate_deployment: the template is validated
TemplateIssues(spec, name) ==
  LET template == Get(spec, "template", None)
      template_spec == Get(template, "spec", EmptyDict)
      selector_labels == Get(Get(spec, "selector", EmptyDict), "matchLabels", EmptyDict)
      template_labels == Get(Get(template, "metadata", EmptyDict), "labels", EmptyDict)
  IN (IF ~Truthy(Get(template_spec, "containers", None))
        THEN <<Issue("error", "spec.template.spec.containers",
                     "Deployment '" \o PyStr(name) \o "' has no containers defined",
                     "Add at least one container in spec.template.spec.containers")>>
        ELSE <<>>)
     \o (IF Truthy(selector_labels) /\ Truthy(template_labels)
           THEN LabelIssues(selector_labels.items, 1, template_labels)
           ELSE <<>>)

\* DeploymentSpecIssues with the template checked before the selector
DeploymentSpecIssuesTemplateFirst(spec, name) ==
  (IF ~PyIn("template", spec)
     THEN <<Issue("error", "spec.template",
                  "Deployment '" \o PyStr(name) \o "' missing pod template",
                  "Add spec.template with pod specification")>>
     ELSE TemplateIssues(spec, name))
  \o (IF ~PyIn("selector", spec)
        THEN <<Issue("error", "spec.selector",
                     "Deployment '" \o PyStr(name) \o "' missing selector",
                     "Add spec.selector.matchLabels to select pods")>>
        ELSE <<>>)

\* the checks of _validate_deployment that follow the check of spec
DeploymentSpecIssues(spec, name) ==
  (IF ~PyIn("selector", spec)
     THEN <<Issue("error", "spec.selector",
                  "Deployment '" \o PyStr(name) \o "' missing selector",
                  "Add spec.selector.matchLabels to select pods")>>
     ELSE <<>>)
  \o (IF ~PyIn("template", spec)
        THEN <<Issue("error", "spec.template",
                     "Deployment '" \o PyStr(name) \o "' missing pod template",
                     "Add spec.template with pod specification")>>
        ELSE TemplateIssues(spec, name))

\* YAMLService._validate_deployment
validate_deployment(content, name) ==
  LET spec == Get(content, "spec", EmptyDict)
  IN IF ~Truthy(spec)
       THEN <<Issue("error", "spec",
                    "Deployment '" \o PyStr(name) \o "' missing spec field",
                    "Add spec with selector, replicas, and template")>>
       ELSE DeploymentSpecIssues(spec, name)

\* _validate_deployment raises in its else branch: spec["template"] of a
\* str or a list, .get of a template, template spec, selector or template
\* metadata that is no dict, .items() or .get of labels that are no dict
TemplateRaises(spec) ==
  \/ ~IsDict(spec)
  \/ LET template == Get(spec, "template", None)
     IN \/ ~IsDict(template)
        \/ ~IsDict(Get(template, "spec", EmptyDict))
        \/ ~IsDict(Get(spec, "selector", EmptyDict))
        \/ ~IsDict(Get(template, "metadata", EmptyDict))
        \/ LET selector_labels ==
                  Get(Get(spec, "selector", EmptyDict), "matchLabels", EmptyDict)
                template_labels ==
                  Get(Get(template, "metadata", EmptyDict), "labels", EmptyDict)
           IN /\ Truthy(selector_labels) /\ Truthy(template_labels)
              /\ (~IsDict(selector_labels) \/ ~IsDict(template_labels))

\* _validate_deployment raises: "selector" not in spec for a number, or
\* the else branch raises
deployment_raises(content) ==
  LET spec == Get(content, "spec", EmptyDict)
  IN /\ Truthy(spec)
     /\ (IsNum(spec) \/ (PyIn("template", spec) /\ TemplateRaises(spec)))

\* _validate_service raises: spec.get of a spec that is no dict
service_raises(content) ==
  LET spec == Get(content, "spec", EmptyDict)
  IN Truthy(spec) /\ ~IsDict(spec)

\* validate_service with the warning given whatever the type
validate_serviceAnyType(content, name) ==
  LET spec == Get(content, "spec", EmptyDict)
  IN IF ~Truthy(spec)
       THEN <<Issue("error", "spec",
                    "Service '" \o PyStr(name) \o "' missing spec field",
                    "Add spec with selector and ports")>>
       ELSE (IF ~Truthy(Get(spec, "selector", None))
               THEN <<Issue("warning", "spec.selector",
                            "Service '" \o PyStr(name) \o "' missing selector",
                            "Add spec.selector to route traffic to matching pods")>>
               ELSE <<>>)
            \o (IF ~Truthy(Get(spec, "ports", None))
                  THEN <<Issue("error", "spec.ports",
                               "Service '" \o PyStr(name) \o "' has no ports defined",
                               "Add at least one port in spec.ports")>>
                  ELSE <<>>)

\* YAMLService._validate_service
validate_service(content, name) ==
  LET spec == Get(content, "spec", EmptyDict)
  IN IF ~Truthy(spec)
       THEN <<Issue("error", "spec",
                    "Service '" \o PyStr(name) \o "' missing spec field",
                    "Add spec with selector and ports")>>
       ELSE (IF ~Truthy(Get(spec, "selector", None))
                  /\ Get(spec, "type", None) # Str("ExternalName")
               THEN <<Issue("warning", "spec.selector",
                            "Service '" \o PyStr(name) \o "' missing selector",
                            "Add spec.selector to route traffic to matching pods")>>
               ELSE <<>>)
            \o (IF ~Truthy(Get(spec, "ports", None))
                  THEN <<Issue("error", "spec.ports",
                               "Service '" \o PyStr(name) \o "' has no ports defined",
                               "Add at least one port in spec.ports")>>
                  ELSE <<>>)

\* _validate_pod raises: spec.get of a spec that is no dict, enumerate of
\* containers that are None or a number, container.get of an element (a
\* character of a str, a key of a dict, an element of a list) that is no dict
pod_raises(content) ==
  LET spec == Get(content, "spec", EmptyDict)
  IN /\ Truthy(spec)
     /\ \/ ~IsDict(spec)
        \/ LET containers == Get(spec, "containers", List(<<>>))
           IN \/ IsNone(containers)
              \/ IsNum(containers)
              \/ IsStr(containers) /\ containers.s # ""
              \/ IsDict(containers) /\ containers.items # <<>>
              \/ /\ IsList(containers)
                 /\ \E i \in 1..Len(containers.elems) : ~IsDict(containers.elems[i])

\* the body of the loop of _validate_pod for the container of index idx
ContainerIssues(container, idx) ==
  (IF ~Truthy(Get(container, "name", None))
     THEN <<Issue("error", "spec.containers[" \o ToString(idx) \o "].name",
                  "Container at index " \o ToString(idx) \o " missing name",
                  "Every container must have a unique name")>>
     ELSE <<>>)
  \o (IF ~Truthy(Get(container, "image", None))
        THEN <<Issue("error", "spec.containers[" \o ToString(idx) \o "].image",
                     "Container '" \o PyStr(Get(container, "name", Num(idx)))
                        \o "' missing image",
                     "Specify the container image to run")>>
        ELSE <<>>)

\* the loop over enumerate(containers), from the container of index idx on
RECURSIVE ContainersIssues(_, _)
ContainersIssues(containers, idx) ==
  IF idx >= Len(containers) THEN <<>>
  ELSE ContainerIssues(containers[idx + 1], idx)
         \o ContainersIssues(containers, idx + 1)

\* YAMLService._validate_pod
validate_pod(content, name) ==
  LET spec == Get(content, "spec", EmptyDict)
      containers == Get(spec, "containers", List(<<>>))
  IN IF ~Truthy(spec)
       THEN <<Issue("error", "spec",
                    "Pod '" \o PyStr(name) \o "' missing spec field",
                    "Add spec with containers")>>
       ELSE (IF ~Truthy(containers)
               THEN <<Issue("error", "spec.containers",
                            "Pod '" \o PyStr(name) \o "' has no containers defined",
                            "Add at least one container in spec.containers")>>
               ELSE <<>>)
            \o ContainersIssues(IF IsList(containers) THEN containers.elems ELSE <<>>, 0)

\* _validate_ingress raises: spec.get of a spec that is no dict
ingress_raises(content) ==
  LET spec == Get(content, "spec", EmptyDict)
  IN Truthy(spec) /\ ~IsDict(spec)

\* validate_ingress with the warning given whatever the defaultBackend
validate_ingressRulesOnly(content, name) ==
  LET spec == Get(content, "spec", EmptyDict)
  IN IF ~Truthy(spec)
       THEN <<Issue("error", "spec",
                    "Ingress '" \o PyStr(name) \o "' missing spec field",
                    "Add spec with rules")>>
       ELSE IF ~Truthy(Get(spec, "rules", List(<<>>)))
         THEN <<Issue("warning", "spec.rules",
                      "Ingress '" \o PyStr(name) \o "' has no rules or defaultBackend",
                      "Add routing rules or a default backend")>>
         ELSE <<>>

\* YAMLService._validate_ingress
validate_ingress(content, name) ==
  LET spec == Get(content, "spec", EmptyDict)
  IN IF ~Truthy(spec)
       THEN <<Issue("error", "spec",
                    "Ingress '" \o PyStr(name) \o "' missing spec field",
                    "Add spec with rules")>>
       ELSE IF ~Truthy(Get(spec, "rules", List(<<>>)))
                 /\ ~Truthy(Get(spec, "defaultBackend", None))
         THEN <<Issue("warning", "spec.rules",
                      "Ingress '" \o PyStr(name) \o "' has no rules or defaultBackend",
                      "Add routing rules or a default backend")>>
         ELSE <<>>

\* deprecated_apis: <<kind, api_version, new_version, removed_in>>
deprecated_apis ==
  << <<"Deployment", "extensions/v1beta1", "apps/v1", "1.16">>,
     <<"Deployment", "apps/v1beta1", "apps/v1", "1.16">>,
     <<"Deployment", "apps/v1beta2", "apps/v1", "1.16">>,
     <<"StatefulSet", "apps/v1beta1", "apps/v1", "1.16">>,
     <<"StatefulSet", "apps/v1beta2", "apps/v1", "1.16">>,
     <<"DaemonSet", "extensions/v1beta1", "apps/v1", "1.16">>,
     <<"DaemonSet", "apps/v1beta2", "apps/v1", "1.16">>,
     <<"ReplicaSet", "extensions/v1beta1", "apps/v1", "1.16">>,
     <<"Ingress", "extensions/v1beta1", "networking.k8s.io/v1", "1.22">>,
     <<"Ingress", "networking.k8s.io/v1beta1", "networking.k8s.io/v1", "1.22">> >>

\* key in deprecated_apis, for key = (kind, api_version)
IsDeprecated(kind, api_version) ==
  \E i \in 1..Len(deprecated_apis) :
    Str(deprecated_apis[i][1]) = kind /\ Str(deprecated_apis[i][2]) = api_version

\* check_deprecated_api with the table looked up by kind alone
check_deprecated_apiByKind(kind, api_version) ==
  IF \E i \in 1..Len(deprecated_apis) : Str(deprecated_apis[i][1]) = kind
    THEN LET entry == deprecated_apis[CHOOSE i \in 1..Len(deprecated_apis) :
                        Str(deprecated_apis[i][1]) = kind]
         IN <<Issue("warning", "apiVersion",
                    PyStr(kind) \o " API version '" \o PyStr(api_version)
                      \o "' is deprecated",
                    "Use '" \o entry[3] \o "' instead (removed in Kubernetes "
                      \o entry[4] \o ")")>>
    ELSE <<>>

\* YAMLService._check_deprecated_api: the issue in a sequence, or no issue
check_deprecated_api(kind, api_version) ==
  IF IsDeprecated(kind, api_version)
    THEN LET entry == deprecated_apis[CHOOSE i \in 1..Len(deprecated_apis) :
                        /\ Str(deprecated_apis[i][1]) = kind
                        /\ Str(deprecated_apis[i][2]) = api_version]
         IN <<Issue("warning", "apiVersion",
                    PyStr(kind) \o " API version '" \o PyStr(api_version)
                      \o "' is deprecated",
                    "Use '" \o entry[3] \o "' instead (removed in Kubernetes "
                      \o entry[4] \o ")")>>
    ELSE <<>>

\* _check_deprecated_api raises: the key (kind, api_version) is unhashable
deprecated_raises(kind, api_version) ==
  IsDict(kind) \/ IsList(kind) \/ IsDict(api_version) \/ IsList(api_version)

\* the body of the loop of validate_structure raises: .get of a content or
\* of a metadata that is no dict, or one of the checks raises
ResourceRaises(resource) ==
  LET kind == Get(resource, "kind", None)
      content == Get(resource, "content", EmptyDict)
      api_version == Get(resource, "api_version", None)
  IN \/ ~IsDict(content)
     \/ ~IsDict(Get(content, "metadata", EmptyDict))
     \/ kind = Str("Deployment") /\ deployment_raises(content)
     \/ kind = Str("Service") /\ service_raises(content)
     \/ kind = Str("Pod") /\ pod_raises(content)
     \/ kind = Str("Ingress") /\ ingress_raises(content)
     \/ deprecated_raises(kind, api_version)

\* the body of the loop of validate_structure: the issues of one resource
ResourceIssues(resource) ==
  LET kind == Get(resource, "kind", None)
      content == Get(resource, "content", EmptyDict)
      name == Get(resource, "name", Str("unnamed"))
      api_version == Get(resource, "api_version", None)
      metadata == Get(content, "metadata", EmptyDict)
  IN (IF ~Truthy(kind)
        THEN <<Issue("error", "kind", "Missing required field 'kind'",
                     "Specify the resource type (e.g., Deployment, Service, Pod)")>>
        ELSE <<>>)
     \o (IF ~Truthy(api_version)
           THEN <<Issue("error", "apiVersion",
                        "Missing required field 'apiVersion' in " \o PyStr(kind),
                        "Add apiVersion field (e.g., 'apps/v1', 'v1')")>>
           ELSE <<>>)
     \o (IF ~Truthy(Get(metadata, "name", None))
           THEN <<Issue("error", "metadata.name",
                        "Missing required field 'metadata.name' in " \o PyStr(kind),
                        "Every resource must have a name")>>
           ELSE <<>>)
     \o (IF kind = Str("Deployment") THEN validate_deployment(content, name)
         ELSE IF kind = Str("Service") THEN validate_service(content, name)
         ELSE IF kind = Str("Pod") THEN validate_pod(content, name)
         ELSE IF kind = Str("Ingress") THEN validate_ingress(content, name)
         ELSE <<>>)
     \o check_deprecated_api(kind, api_version)

\* IssuesFrom with the loop left at the first resource that has an error
RECURSIVE IssuesFromUntilError(_, _)
IssuesFromUntilError(resources, i) ==
  IF i > Len(resources) THEN <<>>
  ELSE LET issues == ResourceIssues(resources[i])
       IN IF \E n \in 1..Len(issues) : issues[n].severity = "error"
            THEN issues
            ELSE issues \o IssuesFromUntilError(resources, i + 1)

\* the loop of validate_structure, from the i-th resource on
RECURSIVE IssuesFrom(_, _)
IssuesFrom(resources, i) ==
  IF i > Len(resources) THEN <<>>
  ELSE ResourceIssues(resources[i]) \o IssuesFrom(resources, i + 1)

\* IsValid counting every issue, whatever its severity
IsValidWithoutIssues(issues) == issues = <<>>

\* not any(issue["severity"] == "error" for issue in issues)
IsValid(issues) == ~\E i \in 1..Len(issues) : issues[i].severity = "error"

\* YAMLService.validate_structure
validate_structure(resources) ==
  IF \E i \in 1..Len(resources) : ResourceRaises(resources[i])
    THEN Raised
    ELSE LET issues == IssuesFrom(resources, 1)
         IN [is_valid |-> IsValid(issues), issues |-> issues]

(***************************************************************************)
(* Calls of validate_structure. The manifests are mappings all through:    *)
(* every field that the validator calls .get on is a mapping or is absent. *)
(***************************************************************************)
MaxContainers == 2
MaxResources == 2

Absent == [absent |-> TRUE]

\* the dict of the fields that are not Absent, in the order given
MkDict(fields) == Dict(SelectSeq(fields, LAMBDA f : f.v # Absent))

Labels(app, tier) == MkDict(<<Item("app", app), Item("tier", tier)>>)

SelectorLabels ==
  {EmptyDict, Labels(Str("web"), Absent), Labels(Str("web"), Str("db"))}

TemplateLabels ==
  {EmptyDict, Labels(Str("web"), Absent), Labels(Str("db"), Absent),
   Labels(Absent, Str("db")), Labels(Str("web"), Str("db"))}

Selectors ==
  {Absent, EmptyDict} \cup {MkDict(<<Item("matchLabels", l)>>) : l \in SelectorLabels}

TemplateMetas ==
  {Absent, EmptyDict} \cup {MkDict(<<Item("labels", l)>>) : l \in TemplateLabels}

Containers ==
  {MkDict(<<Item("name", n), Item("image", i)>>) :
     n \in {Absent, None, Str(""), Str("web")},
     i \in {Absent, Str(""), Str("nginx:latest")}}

ContainerLists ==
  {List(elems) : elems \in UNION {[1..n -> Containers] : n \in 0..MaxContainers}}

NginxContainer == MkDict(<<Item("name", Str("web")), Item("image", Str("nginx:latest"))>>)

TemplateSpecs ==
  {Absent, EmptyDict}
    \cup {MkDict(<<Item("containers", c)>>) : c \in {List(<<>>), List(<<NginxContainer>>)}}

Templates ==
  {Absent, EmptyDict}
    \cup {MkDict(<<Item("metadata", m), Item("spec", s)>>) :
            m \in TemplateMetas, s \in TemplateSpecs}

DeploymentSpecs ==
  {Absent, None, EmptyDict}
    \cup {MkDict(<<Item("replicas", Num(3)), Item("selector", s), Item("template", t)>>) :
            s \in Selectors, t \in Templates}

PodSpecs ==
  {Absent, EmptyDict}
    \cup {MkDict(<<Item("restartPolicy", Str("Always")), Item("containers", c)>>) :
            c \in {Absent} \cup ContainerLists}

ServiceSpecs ==
  {Absent, EmptyDict}
    \cup {MkDict(<<Item("type", t), Item("selector", s), Item("ports", p)>>) :
            t \in {Absent, Str("ClusterIP"), Str("ExternalName")},
            s \in {Absent, EmptyDict, Labels(Str("web"), Absent)},
            p \in {Absent, List(<<>>), List(<<MkDict(<<Item("port", Num(80))>>)>>)}}

IngressSpecs ==
  {Absent, EmptyDict}
    \cup {MkDict(<<Item("ingressClassName", Str("nginx")), Item("rules", r),
                   Item("defaultBackend", b)>>) :
            r \in {Absent, List(<<>>), List(<<MkDict(<<Item("host", Str("example.com"))>>)>>)},
            b \in {Absent, EmptyDict, MkDict(<<Item("service", EmptyDict)>>)}}

Metadatas == {Absent, MkDict(<<Item("name", Str("api"))>>)}

Doc(apiVersion, kind, metadata, spec) ==
  MkDict(<<Item("apiVersion", apiVersion), Item("kind", kind),
           Item("metadata", metadata), Item("spec", spec)>>)

Documents ==
  {Doc(Str(v), Str("Deployment"), m, s) :
     v \in {"apps/v1", "extensions/v1beta1"}, m \in Metadatas, s \in DeploymentSpecs}
  \cup {Doc(Str("v1"), Str("Pod"), m, s) : m \in Metadatas, s \in PodSpecs}
  \cup {Doc(Str("v1"), Str("Service"), m, s) : m \in Metadatas, s \in ServiceSpecs}
  \cup {Doc(Str(v), Str("Ingress"), m, s) :
          v \in {"networking.k8s.io/v1", "networking.k8s.io/v1beta1"},
          m \in Metadatas, s \in IngressSpecs}
  \cup {Doc(Str("v1"), Str("ConfigMap"), m, Absent) : m \in Metadatas}
  \cup {Doc(Str("apps/v1beta2"), Str("StatefulSet"), m, EmptyDict) : m \in Metadatas}

\* the documents of the calls with several resources
CoreDocuments ==
  {Doc(Str("extensions/v1beta1"), Str("Deployment"), Metadata, Absent) :
     Metadata \in Metadatas}
  \cup {Doc(Str("v1"), Str("Service"), MkDict(<<Item("name", Str("api"))>>),
            MkDict(<<Item("ports", List(<<MkDict(<<Item("port", Num(80))>>)>>))>>))}
  \cup {Doc(Str("v1"), Str("Pod"), MkDict(<<Item("name", Str("api"))>>),
            MkDict(<<Item("containers", List(<<NginxContainer>>))>>))}

\* resource dicts that do not come from extract_resources: kind or
\* api_version is missing
BareResources ==
  {Dict(<<Item("kind", k), Item("api_version", v), Item("name", Str("api")),
          Item("namespace", None),
          Item("content", MkDict(<<Item("metadata", MkDict(<<Item("name", Str("api"))>>))>>))>>) :
     k \in {None, Str("Pod")}, v \in {None, Str("v1")}}

ResourceLists ==
  {extract_resources(<<d>>) : d \in Documents}
  \cup {<<r>> : r \in BareResources}
  \cup {extract_resources(docs) :
          docs \in UNION {[1..n -> CoreDocuments] : n \in 0..MaxResources}}

InitValidate ==
  /\ op = "validate_structure"
  /\ arg \in [resources : ResourceLists]
  /\ ret = None
  /\ store = EmptyStore
  /\ sessions = NoSessions
  /\ pc = "call"

Validate ==
  /\ op = "validate_structure"
  /\ pc = "call"
  /\ pc' = "done"
  /\ ret' = validate_structure(arg.resources)
  /\ UNCHANGED <<op, arg, store, sessions>>

NextValidate == Validate

SpecValidate == InitValidate /\ [][NextValidate]_vars

NamedMetadata == MkDict(<<Item("name", Str("api"))>>)

(***************************************************************************)
(* Calls of extract_resources                                              *)
(***************************************************************************)
MaxDocs == 2

ExtractMetadatas ==
  {Absent, None, Str("api"), EmptyDict, NamedMetadata,
   MkDict(<<Item("name", Str("web")), Item("namespace", Str("prod"))>>)}

ExtractDocuments ==
  {Str("hello"), List(<<Str("a")>>), EmptyDict,
   Doc(Absent, Str("Pod"), NamedMetadata, Absent),
   Doc(Str("v1"), Absent, NamedMetadata, Absent),
   Doc(Str("v1"), Str(""), NamedMetadata, Absent),
   Doc(None, Str("Pod"), NamedMetadata, Absent)}
  \cup {Doc(Str("v1"), Str("Pod"), m, Absent) : m \in ExtractMetadatas}
  \cup {Doc(Str("apps/v1"), Str("Deployment"), NamedMetadata, EmptyDict)}

DocumentLists == UNION {[1..n -> ExtractDocuments] : n \in 0..MaxDocs}

InitExtract ==
  /\ op = "extract_resources"
  /\ arg \in [documents : DocumentLists]
  /\ ret = None
  /\ store = EmptyStore
  /\ sessions = NoSessions
  /\ pc = "call"

Extract ==
  /\ op = "extract_resources"
  /\ pc = "call"
  /\ pc' = "done"
  /\ ret' = IF extract_raises(arg.documents) THEN Raised
            ELSE [resources |-> extract_resources(arg.documents)]
  /\ UNCHANGED <<op, arg, store, sessions>>

NextExtract == Extract

SpecExtract == InitExtract /\ [][NextExtract]_vars

(***************************************************************************)
(* Calls of parse                                                          *)
(***************************************************************************)
PodDocument ==
  Doc(Str("v1"), Str("Pod"), NamedMetadata,
      MkDict(<<Item("containers", List(<<NginxContainer>>))>>))

\* what the loader yields for the documents of a text
LoadedValues ==
  {None, PodDocument, EmptyDict,
   Doc(Str("v1"), Absent, NamedMetadata, Absent),
   Doc(Str("v1"), Str("Pod"), None, Absent),
   Doc(Str("v1"), Str("Pod"), NamedMetadata,
       MkDict(<<Item("containers", List(<<Str("nginx")>>))>>)),
   Str("hello"), Str(""), Num(42),
   List(<<>>), List(<<Str("a"), Str("b")>>), List(<<Str("ab")>>),
   List(<<List(<<Str("kind"), Str("Pod")>>), List(<<Str("apiVersion"), Str("v1")>>)>>),
   List(<<None>>)}

StreamEvents ==
  {Loaded(v) : v \in LoadedValues}
    \cup {LoadError("mapping values are not allowed here")}

Streams == UNION {[1..n -> StreamEvents] : n \in 0..MaxDocs}

InitParse ==
  /\ op = "parse"
  /\ arg \in [stream : Streams]
  /\ ret = None
  /\ store = EmptyStore
  /\ sessions = NoSessions
  /\ pc = "call"

Parse ==
  /\ op = "parse"
  /\ pc = "call"
  /\ pc' = "done"
  /\ ret' = parse(arg.stream)
  /\ UNCHANGED <<op, arg, store, sessions>>

NextParse == Parse

SpecParse == InitParse /\ [][NextParse]_vars

(***************************************************************************)
(* Calls of validate_structure on parsed mappings of any shape: a field    *)
(* that the checks read may hold null, a scalar or a sequence.             *)
(***************************************************************************)
RawMetadatas == {Absent, None, Str("api"), List(<<>>), NamedMetadata}

WebLabels == Labels(Str("web"), Absent)

RawTemplate(metadata, spec) ==
  MkDict(<<Item("metadata", metadata), Item("spec", spec)>>)

NginxTemplateSpec == MkDict(<<Item("containers", List(<<NginxContainer>>))>>)

RawDeploymentSpec(selector, template) ==
  MkDict(<<Item("selector", selector), Item("template", template)>>)

WebSelector == MkDict(<<Item("matchLabels", WebLabels)>>)

RawDeploymentSpecs ==
  {None, Str("web"), Str("template"), Num(3), Num(0), List(<<>>),
   List(<<Str("selector")>>), List(<<Str("template")>>)}
  \cup {RawDeploymentSpec(sel, RawTemplate(MkDict(<<Item("labels", WebLabels)>>),
                                           NginxTemplateSpec)) :
          sel \in {None, Str("app=web"), WebSelector,
                   MkDict(<<Item("matchLabels", None)>>),
                   MkDict(<<Item("matchLabels", List(<<Str("app")>>))>>)}}
  \cup {RawDeploymentSpec(WebSelector, t) :
          t \in {None, Str("web"), List(<<>>),
                 RawTemplate(Absent, None),
                 RawTemplate(None, NginxTemplateSpec),
                 RawTemplate(MkDict(<<Item("labels", None)>>), NginxTemplateSpec),
                 RawTemplate(MkDict(<<Item("labels", Str("app=web"))>>), NginxTemplateSpec),
                 RawTemplate(Absent, MkDict(<<Item("containers", Str("nginx"))>>))}}

RawContainerLists ==
  {Absent, None, Str(""), Str("nginx"), Num(0), Num(2), EmptyDict,
   MkDict(<<Item("web", NginxContainer)>>),
   List(<<>>), List(<<NginxContainer>>), List(<<Str("nginx")>>), List(<<None>>),
   List(<<NginxContainer, Str("nginx")>>), List(<<List(<<>>)>>)}

RawPodSpecs ==
  {None, Str("web"), Num(3), List(<<>>), List(<<Str("containers")>>)}
  \cup {MkDict(<<Item("restartPolicy", Str("Always")), Item("containers", c)>>) :
          c \in RawContainerLists}

RawServiceSpecs ==
  {None, Str("web"), Num(3), List(<<Str("ports")>>),
   MkDict(<<Item("selector", Str("app=web")), Item("ports", Num(80))>>),
   MkDict(<<Item("type", List(<<>>)), Item("ports", Str("80"))>>)}

RawIngressSpecs ==
  {None, Str("web"), Num(3), List(<<Str("rules")>>),
   MkDict(<<Item("rules", Str("example.com"))>>),
   MkDict(<<Item("rules", None), Item("defaultBackend", Num(0))>>)}

RawDocuments ==
  {Doc(Str("apps/v1"), Str("Deployment"), m, s) :
     m \in RawMetadatas, s \in RawDeploymentSpecs}
  \cup {Doc(Str("v1"), Str("Pod"), m, s) : m \in RawMetadatas, s \in RawPodSpecs}
  \cup {Doc(Str("v1"), Str("Service"), m, s) : m \in RawMetadatas, s \in RawServiceSpecs}
  \cup {Doc(Str("networking.k8s.io/v1"), Str("Ingress"), m, s) :
          m \in RawMetadatas, s \in RawIngressSpecs}
  \cup {Doc(Str("v1"), k, m, Str("web")) :
          k \in {Str("ConfigMap"), List(<<Str("Pod")>>), Num(1)}, m \in RawMetadatas}

\* the resource dict of a document, as extract_resources builds it, with
\* no name and no namespace when the metadata is no mapping
RawResource(doc) ==
  LET metadata == Get(doc, "metadata", EmptyDict)
  IN Dict(<<Item("kind", Get(doc, "kind", None)),
            Item("api_version", Get(doc, "apiVersion", None)),
            Item("name", IF IsDict(metadata) THEN Get(metadata, "name", None) ELSE None),
            Item("namespace",
                 IF IsDict(metadata) THEN Get(metadata, "namespace", None) ELSE None),
            Item("content", doc)>>)

InitValidateRaw ==
  /\ op = "validate_structure"
  /\ arg \in [resources : {<<RawResource(d)>> : d \in RawDocuments}]
  /\ ret = None
  /\ store = EmptyStore
  /\ sessions = NoSessions
  /\ pc = "call"

SpecValidateRaw == InitValidateRaw /\ [][NextValidate]_vars

(***************************************************************************)
(* The validate and explain routes (backend/app/routes/yaml_routes.py).    *)
(* The request holds the text, modelled as in parse by what the loader     *)
(* does with it. The explain route may ask the language model of the       *)
(* active connection: what the store and the model answer is an input.     *)
(***************************************************************************)
\* RESOURCE_DESCRIPTIONS: <<kind, description>>
RESOURCE_DESCRIPTIONS ==
  <<  <<"Deployment",
       "Manages a replicated set of pods, providing declarative updates and rollback capabilities. Ideal for stateless applications.">>,
     <<"Service",
       "Exposes a set of pods as a network service with a stable IP and DNS name. Enables service discovery and load balancing.">>,
     <<"Pod",
       "The smallest deployable unit in Kubernetes, representing one or more containers that share storage and network resources.">>,
     <<"ConfigMap",
       "Stores non-confidential configuration data as key-value pairs. Allows separating configuration from container images.">>,
     <<"Secret",
       "Stores sensitive data such as passwords, tokens, or keys. Data is base64-encoded and can be encrypted at rest.">>,
     <<"Ingress",
       "Manages external HTTP/HTTPS access to services, providing load balancing, SSL termination, and name-based virtual hosting.">>,
     <<"PersistentVolumeClaim",
       "Requests storage resources from the cluster. Abstracts storage details from applications.">>,
     <<"PersistentVolume",
       "Represents a piece of storage in the cluster. Can be dynamically provisioned or manually created.">>,
     <<"StatefulSet",
       "Manages stateful applications requiring stable network identities, ordered deployment, and persistent storage.">>,
     <<"DaemonSet",
       "Ensures a copy of a pod runs on all (or selected) nodes. Used for node-level services like logging or monitoring.">>,
     <<"Job",
       "Creates one or more pods and ensures a specified number complete successfully. Used for batch processing and one-time tasks.">>,
     <<"CronJob",
       "Runs Jobs on a schedule (cron format). Used for periodic tasks like backups or report generation.">>,
     <<"ReplicaSet",
       "Ensures a specified number of pod replicas are running. Usually managed by Deployments rather than created directly.">>,
     <<"Namespace",
       "Provides scope for resource names and enables multi-tenancy. Resources in one namespace are isolated from others.">>,
     <<"ServiceAccount",
       "Provides an identity for processes running in pods, used for API authentication and authorization.">>,
     <<"Role",
       "Defines permissions within a namespace. Contains rules that represent a set of permissions.">>,
     <<"ClusterRole",
       "Like Role, but cluster-wide. Can grant access to cluster-scoped resources or across all namespaces.">>,
     <<"RoleBinding",
       "Grants permissions defined in a Role to users or ServiceAccounts within a namespace.">>,
     <<"ClusterRoleBinding",
       "Grants permissions defined in a ClusterRole at the cluster level.">>,
     <<"HorizontalPodAutoscaler",
       "Automatically scales the number of pods based on observed CPU/memory utilization or custom metrics.">>,
     <<"NetworkPolicy",
       "Defines how groups of pods can communicate with each other and external endpoints. Provides network segmentation.">> >>

\* K8sExplainer.explain_resource
explain_resource(kind) ==
  IF \E i \in 1..Len(RESOURCE_DESCRIPTIONS) : Str(RESOURCE_DESCRIPTIONS[i][1]) = kind
    THEN Str(RESOURCE_DESCRIPTIONS[CHOOSE i \in 1..Len(RESOURCE_DESCRIPTIONS) :
                                     Str(RESOURCE_DESCRIPTIONS[i][1]) = kind][2])
    ELSE None

\* the summary_parts appended for the resources from the idx-th on
RECURSIVE SummaryParts(_, _)
SummaryParts(resources, idx) ==
  IF idx > Len(resources) THEN <<>>
  ELSE LET resource == resources[idx]
           kind == Get(resource, "kind", Str("Unknown"))
           name == Get(Get(resource, "metadata", EmptyDict), "name", Str("unnamed"))
           desc == explain_resource(kind)
       IN <<"\n" \o ToString(idx) \o ". **" \o PyStr(kind) \o "** named '"
              \o PyStr(name) \o "'">>
          \o (IF Truthy(desc) THEN <<"   - " \o desc.s>> ELSE <<>>)
          \o SummaryParts(resources, idx + 1)

\* "\n".join(parts), from the i-th part on
RECURSIVE JoinLines(_, _)
JoinLines(parts, i) ==
  IF i > Len(parts) THEN ""
  ELSE IF i = Len(parts) THEN parts[i]
  ELSE parts[i] \o "\n" \o JoinLines(parts, i + 1)

\* K8sExplainer.generate_summary
generate_summary(resources) ==
  IF resources = <<>> THEN "No resources found in the manifest."
  ELSE JoinLines(<<"This Kubernetes manifest contains:">> \o SummaryParts(resources, 1), 1)

\* YAMLValidateResponse
YAMLValidateResponse(success, valid, issues, error) ==
  [success |-> success, valid |-> valid, issues |-> issues, error |-> error]

\* the validate route; an exception that leaves the handler is the raised
\* outcome
validate_yaml(content) ==
  LET parsed == parse(content)
  IN IF ~parsed.ok
       THEN YAMLValidateResponse(FALSE, FALSE, <<>>, Str(parsed.error))
     ELSE IF extract_raises(parsed.documents) THEN Raised
     ELSE LET resources == extract_resources(parsed.documents)
              validated == validate_structure(resources)
          IN IF resources = <<>>
               THEN YAMLValidateResponse(FALSE, FALSE, <<>>,
                                         Str("No valid Kubernetes resources found"))
             ELSE IF DidRaise(validated) THEN Raised
             ELSE YAMLValidateResponse(TRUE, validated.is_valid, validated.issues, None)

\* ParsedResource(kind=r["kind"], ...)
ParsedResource(r) ==
  [kind |-> Get(r, "kind", None), api_version |-> Get(r, "api_version", None),
   name |-> Get(r, "name", None), namespace |-> Get(r, "namespace", None),
   content |-> Get(r, "content", None)]

\* ExplanationResponse
ExplanationResponse(success, resources, explanations, summary, llm_used, error) ==
  [success |-> success, resources |-> resources, explanations |-> explanations,
   summary |-> summary, llm_used |-> llm_used, error |-> error]

\* the loop that extends all_explanations, from the i-th resource on
RECURSIVE ExplainAll(_, _)
ExplainAll(resources_data, i) ==
  IF i > Len(resources_data) THEN <<>>
  ELSE walk_and_explain(Get(resources_data[i], "content", None), "", <<>>)
         \o ExplainAll(resources_data, i + 1)

\* what the store and the language model answer: no active connection, an
\* exception, or the (llm_success, llm_explanation, llm_error) of the call
NoConnection == [active |-> FALSE]
LLMRaises == [active |-> TRUE, raises |-> TRUE]
LLMAnswer(llm_success, llm_explanation) ==
  [active |-> TRUE, raises |-> FALSE,
   llm_success |-> llm_success, llm_explanation |-> llm_explanation]

\* the language model's explanation is taken
LLMTaken(use_llm, llm) ==
  /\ use_llm
  /\ llm.active
  /\ ~llm.raises
  /\ llm.llm_success
  /\ llm.llm_explanation # ""

\* explain_yaml with the entry of the language model put after the others
explain_yamlLLMLast(content, use_llm, llm) ==
  LET parsed == parse(content)
  IN IF ~parsed.ok
       THEN ExplanationResponse(FALSE, <<>>, <<>>, "", FALSE, Str(parsed.error))
     ELSE IF extract_raises(parsed.documents) THEN Raised
     ELSE LET resources_data == extract_resources(parsed.documents)
              parsed_resources ==
                [i \in 1..Len(resources_data) |-> ParsedResource(resources_data[i])]
              all_explanations == ExplainAll(resources_data, 1)
              summary == generate_summary(resources_data)
          IN IF resources_data = <<>>
               THEN ExplanationResponse(FALSE, <<>>, <<>>, "", FALSE,
                                        Str("No valid Kubernetes resources found"))
             ELSE IF LLMTaken(use_llm, llm)
               THEN ExplanationResponse(
                      TRUE, parsed_resources,
                      all_explanations
                        \o <<[path |-> "_llm_summary", value |-> Str(""),
                              explanation |-> llm.llm_explanation, source |-> "llm"]>>,
                      llm.llm_explanation, TRUE, None)
             ELSE ExplanationResponse(TRUE, parsed_resources, all_explanations,
                                      summary, FALSE, None)

\* the explain route
explain_yaml(content, use_llm, llm) ==
  LET parsed == parse(content)
  IN IF ~parsed.ok
       THEN ExplanationResponse(FALSE, <<>>, <<>>, "", FALSE, Str(parsed.error))
     ELSE IF extract_raises(parsed.documents) THEN Raised
     ELSE LET resources_data == extract_resources(parsed.documents)
              parsed_resources ==
                [i \in 1..Len(resources_data) |-> ParsedResource(resources_data[i])]
              all_explanations == ExplainAll(resources_data, 1)
              summary == generate_summary(resources_data)
          IN IF resources_data = <<>>
               THEN ExplanationResponse(FALSE, <<>>, <<>>, "", FALSE,
                                        Str("No valid Kubernetes resources found"))
             ELSE IF LLMTaken(use_llm, llm)
               THEN ExplanationResponse(
                      TRUE, parsed_resources,
                      <<[path |-> "_llm_summary", value |-> Str(""),
                         explanation |-> llm.llm_explanation, source |-> "llm"]>>
                        \o all_explanations,
                      llm.llm_explanation, TRUE, None)
             ELSE ExplanationResponse(TRUE, parsed_resources, all_explanations,
                                      summary, FALSE, None)

(***************************************************************************)
(* Calls of the routes                                                     *)
(***************************************************************************)
LLMOutcomes ==
  {NoConnection, LLMRaises, LLMAnswer(FALSE, ""), LLMAnswer(TRUE, ""),
   LLMAnswer(TRUE, "This manifest runs nginx.")}

InitRoutes ==
  /\ \/ /\ op = "validate_yaml"
        /\ arg \in [content : Streams]
     \/ /\ op = "explain_yaml"
        /\ arg \in [content : Streams, use_llm : {FALSE}, llm : {NoConnection}]
                  \cup [content : Streams, use_llm : {TRUE}, llm : LLMOutcomes]
  /\ ret = None
  /\ store = EmptyStore
  /\ sessions = NoSessions
  /\ pc = "call"

ValidateYaml ==
  /\ op = "validate_yaml"
  /\ pc = "call"
  /\ pc' = "done"
  /\ ret' = validate_yaml(arg.content)
  /\ UNCHANGED <<op, arg, store, sessions>>

ExplainYaml ==
  /\ op = "explain_yaml"
  /\ pc = "call"
  /\ pc' = "done"
  /\ ret' = explain_yaml(arg.content, arg.use_llm, arg.llm)
  /\ UNCHANGED <<op, arg, store, sessions>>

NextRoutes == ValidateYaml \/ ExplainYaml

SpecRoutes == InitRoutes /\ [][NextRoutes]_vars

(***************************************************************************)
(* Calls of generate_summary, on the resources that extract_resources      *)
(* gives for the documents of a manifest                                   *)
(***************************************************************************)
SummaryDocuments ==
  {Doc(Str("v1"), Str(k), m, Absent) :
     k \in {"Pod", "Deployment", "ConfigMap", "Widget"},
     m \in {Absent, NamedMetadata, MkDict(<<Item("name", Str("web"))>>)}}

SummaryResourceLists ==
  {extract_resources(docs) :
     docs \in UNION {[1..n -> SummaryDocuments] : n \in 0..MaxDocs}}

InitSummary ==
  /\ op = "generate_summary"
  /\ arg \in [resources : SummaryResourceLists]
  /\ ret = None
  /\ store = EmptyStore
  /\ sessions = NoSessions
  /\ pc = "call"

GenerateSummary ==
  /\ op = "generate_summary"
  /\ pc = "call"
  /\ pc' = "done"
  /\ ret' = [summary |-> generate_summary(arg.resources)]
  /\ UNCHANGED <<op, arg, store, sessions>>

NextSummary == GenerateSummary

SpecSummary == InitSummary /\ [][NextSummary]_vars

(***************************************************************************)
(* YAMLService.generate_yaml. The tree is written by the YAML dumper and   *)
(* read back by the loader, which are not part of the program: a text is   *)
(* modelled by its documents, a document by its nodes, a scalar node by    *)
(* the characters written and by whether they are written in quotes. The   *)
(* scalars are strings, integers and null; the keys are written as they    *)
(* are.                                                                    *)
(***************************************************************************)
ScalarNode(text, quoted) == [text |-> text, quoted |-> quoted]
MappingNode(pairs) == [pairs |-> pairs]
SequenceNode(nodes) == [nodes |-> nodes]
YamlText(docs) == [docs |-> docs]

IsScalarNode(node) == DOMAIN node = {"text", "quoted"}
IsMappingNode(node) == DOMAIN node = {"pairs"}

\* the empty string that generate_yaml returns with a failure
EmptyText == YamlText(<<>>)

IsDigits(s) == s # "" /\ \A i \in 1..Len(s) : IsDigit(Char(s, i))

\* the resolver reads the plain scalar as an integer
ResolvesAsInt(text) ==
  \/ IsDigits(text)
  \/ Len(text) > 1 /\ Char(text, 1) \in {"-", "+"} /\ IsDigits(SubSeq(text, 2, Len(text)))

\* the resolver reads the plain scalar as null
ResolvesAsNull(text) == text \in {"", "~", "null", "Null", "NULL"}

\* int(text) for a string of digits
RECURSIVE DigitsValue(_)
DigitsValue(s) ==
  IF s = "" THEN 0
  ELSE 10 * DigitsValue(SubSeq(s, 1, Len(s) - 1))
         + (CHOOSE d \in 0..9 : ToString(d) = Char(s, Len(s)))

IntValue(text) ==
  IF Char(text, 1) = "-" THEN 0 - DigitsValue(SubSeq(text, 2, Len(text)))
  ELSE IF Char(text, 1) = "+" THEN DigitsValue(SubSeq(text, 2, Len(text)))
  ELSE DigitsValue(text)

\* yaml.dump that writes every string plain
RECURSIVE DumpNodePlain(_)
DumpNodePlain(value) ==
  IF IsNone(value) THEN ScalarNode("", FALSE)
  ELSE IF IsNum(value) THEN ScalarNode(ToString(value.n), FALSE)
  ELSE IF IsStr(value) THEN ScalarNode(value.s, FALSE)
  ELSE IF IsDict(value)
    THEN MappingNode([i \in 1..Len(value.items) |->
                        [k |-> value.items[i].k, v |-> DumpNodePlain(value.items[i].v)]])
  ELSE SequenceNode([i \in 1..Len(value.elems) |-> DumpNodePlain(value.elems[i])])

\* yaml.dump of a value: a string is written plain unless the resolver
\* would read the plain scalar as something else than a string
RECURSIVE DumpNode(_)
DumpNode(value) ==
  IF IsNone(value) THEN ScalarNode("", FALSE)
  ELSE IF IsNum(value) THEN ScalarNode(ToString(value.n), FALSE)
  ELSE IF IsStr(value)
    THEN ScalarNode(value.s, ResolvesAsInt(value.s) \/ ResolvesAsNull(value.s))
  ELSE IF IsDict(value)
    THEN MappingNode([i \in 1..Len(value.items) |->
                        [k |-> value.items[i].k, v |-> DumpNode(value.items[i].v)]])
  ELSE SequenceNode([i \in 1..Len(value.elems) |-> DumpNode(value.elems[i])])

\* the value that the loader constructs for a node
RECURSIVE LoadNode(_)
LoadNode(node) ==
  IF IsScalarNode(node)
    THEN IF node.quoted THEN Str(node.text)
         ELSE IF ResolvesAsNull(node.text) THEN None
         ELSE IF ResolvesAsInt(node.text) THEN Num(IntValue(node.text))
         ELSE Str(node.text)
  ELSE IF IsMappingNode(node)
    THEN Dict([i \in 1..Len(node.pairs) |->
                 Item(node.pairs[i].k, LoadNode(node.pairs[i].v))])
  ELSE List([i \in 1..Len(node.nodes) |-> LoadNode(node.nodes[i])])

\* what load_all yields for a text that the dumper wrote
LoadAll(text) == [i \in 1..Len(text.docs) |-> Loaded(LoadNode(text.docs[i]))]

\* _generate_deployment with a template that has no container
generate_deploymentNoContainers(config) ==
  LET name == Get(config, "name", Str("my-deployment"))
      replicas == Get(config, "replicas", Num(3))
      labels == Dict(<<Item("app", name)>>)
  IN Dict(<<
       Item("apiVersion", Str("apps/v1")),
       Item("kind", Str("Deployment")),
       Item("metadata", Dict(<<Item("name", name), Item("labels", labels)>>)),
       Item("spec", Dict(<<
         Item("replicas", replicas),
         Item("selector", Dict(<<Item("matchLabels", labels)>>)),
         Item("template", Dict(<<
           Item("metadata", Dict(<<Item("labels", labels)>>)),
           Item("spec", Dict(<<Item("containers", List(<<>>))>>))>>))>>))>>)

\* YAMLService._generate_deployment
generate_deployment(config) ==
  LET name == Get(config, "name", Str("my-deployment"))
      image == Get(config, "image", Str("nginx:latest"))
      replicas == Get(config, "replicas", Num(3))
      port == Get(config, "port", Num(80))
      labels == Dict(<<Item("app", name)>>)
  IN Dict(<<
       Item("apiVersion", Str("apps/v1")),
       Item("kind", Str("Deployment")),
       Item("metadata", Dict(<<Item("name", name), Item("labels", labels)>>)),
       Item("spec", Dict(<<
         Item("replicas", replicas),
         Item("selector", Dict(<<Item("matchLabels", labels)>>)),
         Item("template", Dict(<<
           Item("metadata", Dict(<<Item("labels", labels)>>)),
           Item("spec", Dict(<<
             Item("containers", List(<<Dict(<<
               Item("name", name),
               Item("image", image),
               Item("ports", List(<<Dict(<<Item("containerPort", port)>>)>>))>>)>>))>>))>>))>>))>>)

\* _generate_service with the targetPort 80 when none is given
generate_serviceFixedTargetPort(config) ==
  LET name == Get(config, "name", Str("my-service"))
      app_label == Get(config, "app", name)
      port == Get(config, "port", Num(80))
      target_port == Get(config, "targetPort", Num(80))
      service_type == Get(config, "type", Str("ClusterIP"))
  IN Dict(<<
       Item("apiVersion", Str("v1")),
       Item("kind", Str("Service")),
       Item("metadata", Dict(<<Item("name", name)>>)),
       Item("spec", Dict(<<
         Item("selector", Dict(<<Item("app", app_label)>>)),
         Item("type", service_type),
         Item("ports", List(<<Dict(<<
           Item("port", port),
           Item("targetPort", target_port),
           Item("protocol", Str("TCP"))>>)>>))>>))>>)

\* YAMLService._generate_service
generate_service(config) ==
  LET name == Get(config, "name", Str("my-service"))
      app_label == Get(config, "app", name)
      port == Get(config, "port", Num(80))
      target_port == Get(config, "targetPort", port)
      service_type == Get(config, "type", Str("ClusterIP"))
  IN Dict(<<
       Item("apiVersion", Str("v1")),
       Item("kind", Str("Service")),
       Item("metadata", Dict(<<Item("name", name)>>)),
       Item("spec", Dict(<<
         Item("selector", Dict(<<Item("app", app_label)>>)),
         Item("type", service_type),
         Item("ports", List(<<Dict(<<
           Item("port", port),
           Item("targetPort", target_port),
           Item("protocol", Str("TCP"))>>)>>))>>))>>)

\* YAMLService._generate_ingress
generate_ingress(config) ==
  LET name == Get(config, "name", Str("my-ingress"))
      host == Get(config, "host", Str("example.com"))
      service_name == Get(config, "serviceName", Str("my-service"))
      service_port == Get(config, "servicePort", Num(80))
      path == Get(config, "path", Str("/"))
  IN Dict(<<
       Item("apiVersion", Str("networking.k8s.io/v1")),
       Item("kind", Str("Ingress")),
       Item("metadata", Dict(<<Item("name", name)>>)),
       Item("spec", Dict(<<
         Item("rules", List(<<Dict(<<
           Item("host", host),
           Item("http", Dict(<<
             Item("paths", List(<<Dict(<<
               Item("path", path),
               Item("pathType", Str("Prefix")),
               Item("backend", Dict(<<
                 Item("service", Dict(<<
                   Item("name", service_name),
                   Item("port", Dict(<<Item("number", service_port)>>))>>))>>))>>)>>))>>))>>)>>))>>))>>)

\* YAMLService._generate_configmap
generate_configmap(config) ==
  LET name == Get(config, "name", Str("my-config"))
      data == Get(config, "data", Dict(<<Item("key", Str("value"))>>))
  IN Dict(<<
       Item("apiVersion", Str("v1")),
       Item("kind", Str("ConfigMap")),
       Item("metadata", Dict(<<Item("name", name)>>)),
       Item("data", data)>>)

ResourceTypes == {"deployment", "service", "ingress", "configmap"}

\* the tree that generate_yaml builds for a supported resource_type
GenerateContent(resource_type, config) ==
  IF resource_type = "deployment" THEN generate_deployment(config)
  ELSE IF resource_type = "service" THEN generate_service(config)
  ELSE IF resource_type = "ingress" THEN generate_ingress(config)
  ELSE generate_configmap(config)

\* type(v).__name__
TypeName(v) ==
  IF IsNone(v) THEN "NoneType"
  ELSE IF IsStr(v) THEN "str"
  ELSE IF IsNum(v) THEN "int"
  ELSE IF IsDict(v) THEN "dict"
  ELSE "list"

\* generate_yaml with the resource_type compared in lower case
generate_yamlAnyCase(resource_type, config) ==
  IF Lower(resource_type) \notin ResourceTypes
    THEN [ok |-> FALSE, yaml |-> EmptyText,
          error |-> "Unknown resource type: " \o resource_type]
  ELSE [ok |-> TRUE,
        yaml |-> YamlText(<<DumpNode(GenerateContent(Lower(resource_type), config))>>),
        error |-> ""]

\* YAMLService.generate_yaml; config.get of a config that is no dict raises
\* inside the try block
generate_yaml(resource_type, config) ==
  IF resource_type \notin ResourceTypes
    THEN [ok |-> FALSE, yaml |-> EmptyText,
          error |-> "Unknown resource type: " \o resource_type]
  ELSE IF ~IsDict(config)
    THEN [ok |-> FALSE, yaml |-> EmptyText,
          error |-> "Generation error: '" \o TypeName(config)
                      \o "' object has no attribute 'get'"]
  ELSE [ok |-> TRUE,
        yaml |-> YamlText(<<DumpNode(GenerateContent(resource_type, config))>>),
        error |-> ""]

(***************************************************************************)
(* Calls of generate_yaml, and the generated text taken through parse,     *)
(* extract_resources and validate_structure, one call after the other      *)
(***************************************************************************)
ConfigNames == {Absent, Str("api"), Str("123"), Str("null")}

DeploymentConfigs ==
  {MkDict(<<Item("name", n), Item("image", i), Item("replicas", r), Item("port", p)>>) :
     n \in ConfigNames, i \in {Absent, Str("myimg:1")},
     r \in {Absent, Num(2)}, p \in {Absent, Num(8080)}}

ServiceConfigs ==
  {MkDict(<<Item("name", n), Item("app", a), Item("port", p),
            Item("targetPort", t), Item("type", y)>>) :
     n \in ConfigNames, a \in {Absent, Str("backend")}, p \in {Absent, Num(8080)},
     t \in {Absent, Num(9000)}, y \in {Absent, Str("NodePort")}}

IngressConfigs ==
  {MkDict(<<Item("name", n), Item("host", h), Item("serviceName", s),
            Item("servicePort", p), Item("path", a)>>) :
     n \in ConfigNames, h \in {Absent, Str("api.example.org")},
     s \in {Absent, Str("backend")}, p \in {Absent, Num(8080)},
     a \in {Absent, Str("/v1")}}

ConfigMapConfigs ==
  {MkDict(<<Item("name", n), Item("data", d)>>) :
     n \in ConfigNames,
     d \in {Absent, EmptyDict, Dict(<<Item("mode", Str("fast")), Item("workers", Str("4"))>>)}}

GenerateRequests ==
  [resource_type : {"deployment"}, config : DeploymentConfigs]
    \cup [resource_type : {"service"}, config : ServiceConfigs]
    \cup [resource_type : {"ingress"}, config : IngressConfigs]
    \cup [resource_type : {"configmap"}, config : ConfigMapConfigs]
    \cup [resource_type : {"Deployment", "SERVICE", "pod", ""},
          config : {EmptyDict, MkDict(<<Item("name", Str("api"))>>)}]

\* ret while the later calls have not been made
Generation(generated, parsed, resources, validated) ==
  [generated |-> generated, parsed |-> parsed, resources |-> resources,
   validated |-> validated]

InitGenerate ==
  /\ op = "generate_yaml"
  /\ arg \in GenerateRequests
  /\ ret = None
  /\ store = EmptyStore
  /\ sessions = NoSessions
  /\ pc = "call"

GenerateYaml ==
  /\ op = "generate_yaml"
  /\ pc = "call"
  /\ pc' = "generated"
  /\ ret' = Generation(generate_yaml(arg.resource_type, arg.config), None, None, None)
  /\ UNCHANGED <<op, arg, store, sessions>>

\* parse(yaml_content) of the generated text
ParseGenerated ==
  /\ op = "generate_yaml"
  /\ pc = "generated"
  /\ ret.generated.ok
  /\ pc' = "parsed"
  /\ ret' = [ret EXCEPT !.parsed = parse(LoadAll(ret.generated.yaml))]
  /\ UNCHANGED <<op, arg, store, sessions>>

\* extract_resources(documents) of the parsed documents
ExtractGenerated ==
  /\ op = "generate_yaml"
  /\ pc = "parsed"
  /\ ret.parsed.ok
  /\ pc' = "extracted"
  /\ ret' = [ret EXCEPT !.resources =
               IF extract_raises(ret.parsed.documents) THEN Raised
               ELSE [resources |-> extract_resources(ret.parsed.documents)]]
  /\ UNCHANGED <<op, arg, store, sessions>>

\* validate_structure(resources) of the extracted resources
ValidateGenerated ==
  /\ op = "generate_yaml"
  /\ pc = "extracted"
  /\ ~DidRaise(ret.resources)
  /\ pc' = "done"
  /\ ret' = [ret EXCEPT !.validated = validate_structure(ret.resources.resources)]
  /\ UNCHANGED <<op, arg, store, sessions>>

NextGenerate ==
  GenerateYaml \/ ParseGenerated \/ ExtractGenerated \/ ValidateGenerated

SpecGenerate == InitGenerate /\ [][NextGenerate]_vars

(***************************************************************************)
(* Properties of explain_field                                             *)
(***************************************************************************)
Explained == op = "explain_field" /\ pc = "done"

ContainerImagePaths ==
  {"spec.template.spec.containers." \o ToString(n) \o ".image" : n \in 0..MaxIndex}

\* some key of the table matches the normalized path in the partial-match loop
SomeKeyMatches(path) ==
  LET array_path == ArrayPath(path)
  IN \E i \in 1..NumFields : PartialMatch(array_path, FieldKey(i))

\* C1: for every value and every index n, the path
\* spec.template.spec.containers.<n>.image is explained with the table entry
\* of containers[].image, as the path containers[].image itself is.
C1_IndexedImageSameAsArrayKey ==
  (Explained /\ arg.path \in ContainerImagePaths \cup {"containers[].image"})
    => ret = Str(FieldLookup("containers[].image"))

\* C2: a path that is not a key of the table while its index-erased form is
\* one is explained with the entry of the index-erased form.
C2_NormalizedKeyFirst ==
  (Explained /\ ~IsFieldKey(arg.path) /\ IsFieldKey(ArrayPath(arg.path)))
    => ret = Str(FieldLookup(ArrayPath(arg.path)))

\* C3: when neither the path nor its normalized form is a key and some key is
\* a suffix or a substring of the normalized path, the result is the entry
\* of the first such key in declaration order, whatever keys match later.
C3_FirstMatchingKeyWins ==
  (/\ Explained
   /\ ~IsFieldKey(arg.path)
   /\ ~IsFieldKey(ArrayPath(arg.path)))
    => LET array_path == ArrayPath(arg.path)
           matching == {i \in 1..NumFields : PartialMatch(array_path, FieldKey(i))}
       IN matching # {}
            => \E i \in matching :
                 /\ \A j \in 1..(i - 1) : j \notin matching
                 /\ ret = Str(FieldText(i))

\* C3 happens: a later key that is longer matches too, and the entry of the
\* earlier key is returned
C3_Witness ==
  /\ Explained
  /\ ~IsFieldKey(arg.path)
  /\ ~IsFieldKey(ArrayPath(arg.path))
  /\ LET array_path == ArrayPath(arg.path)
     IN \E i, j \in 1..NumFields :
          /\ i < j
          /\ Len(FieldKey(j)) > Len(FieldKey(i))
          /\ PartialMatch(array_path, FieldKey(i))
          /\ PartialMatch(array_path, FieldKey(j))
          /\ ret = Str(FieldText(i))

Keywords == <<"name", "namespace", "label", "annotation">>
KeywordTexts == <<NameText, NamespaceText, LabelText, AnnotationText>>

\* C4: when no key matches, the result is the sentence of the first of the
\* four keywords that the lower-cased raw path contains, and None when it
\* contains none of them.
C4_KeywordFallback ==
  (Explained /\ ~IsFieldKey(arg.path) /\ ~SomeKeyMatches(arg.path))
    => LET lowered == Lower(arg.path)
           found == {n \in 1..4 : Contains(lowered, Keywords[n])}
       IN IF found = {} THEN ret = None
          ELSE \E n \in found :
                 /\ \A m \in 1..(n - 1) : m \notin found
                 /\ ret = Str(KeywordTexts[n])

\* C4 happens: no key matches a path that holds the keyword label in upper
\* case, and the label sentence is returned
C4_Witness ==
  /\ Explained
  /\ ~IsFieldKey(arg.path)
  /\ ~SomeKeyMatches(arg.path)
  /\ ~Contains(arg.path, "label")
  /\ ret = Str(LabelText)

(***************************************************************************)
(* Properties of walk_and_explain. A node of the walked tree is addressed  *)
(* by the positions of the children on the way to it from the root.        *)
(***************************************************************************)
Walked == op = "walk_and_explain" /\ pc = "done"

Children(node) ==
  IF IsDict(node) THEN [i \in 1..Len(node.items) |-> node.items[i].v]
  ELSE IF IsList(node) THEN node.elems
  ELSE <<>>

RECURSIVE Addrs(_)
Addrs(node) ==
  UNION {{<<i>>} \cup {<<i>> \o a : a \in Addrs(Children(node)[i])} :
           i \in 1..Len(Children(node))}

RECURSIVE NodeAt(_, _)
NodeAt(node, a) ==
  IF a = <<>> THEN node ELSE NodeAt(Children(node)[Head(a)], Tail(a))

Parent(a) == SubSeq(a, 1, Len(a) - 1)

\* the segment that names the child at address a below its parent
Segment(root, a) ==
  LET parent == NodeAt(root, Parent(a))
  IN IF IsDict(parent) THEN parent.items[a[Len(a)]].k
                       ELSE ToString(a[Len(a)] - 1)

\* the dotted path of the node at address a, below the prefix of the call
RECURSIVE PathOf(_, _, _)
PathOf(root, prefix, a) ==
  IF a = <<>> THEN prefix
  ELSE LET above == PathOf(root, prefix, Parent(a))
       IN IF above = "" THEN Segment(root, a)
                        ELSE above \o "." \o Segment(root, a)

IsKeyAddr(root, a) == a # <<>> /\ IsDict(NodeAt(root, Parent(a)))
IsElemAddr(root, a) == a # <<>> /\ IsList(NodeAt(root, Parent(a)))

IsPrefixOf(a, b) == Len(a) <= Len(b) /\ SubSeq(b, 1, Len(a)) = a

\* a is visited before b in a depth-first traversal
Before(a, b) ==
  \/ a # b /\ IsPrefixOf(a, b)
  \/ \E n \in 1..Len(a) :
       /\ n <= Len(b)
       /\ SubSeq(a, 1, n - 1) = SubSeq(b, 1, n - 1)
       /\ a[n] < b[n]

\* the keys of the tree that explain_field has an explanation for
ExplainedKeys(root, prefix) ==
  {a \in Addrs(root) :
     /\ IsKeyAddr(root, a)
     /\ Truthy(explain_field(PathOf(root, prefix, a), NodeAt(root, a)))}

StartsWith(s, k) == Len(k) <= Len(s) /\ SubSeq(s, 1, Len(k)) = k

\* C5: the entries are exactly the keys of the tree that have an
\* explanation, one entry each with the path prefix.key and the source
\* rule-based, in depth-first order (a key before its descendants, a subtree
\* before the next sibling); nothing is emitted for the root.
C5_DepthFirstKeyEntries ==
  Walked =>
    LET keys == ExplainedKeys(arg.obj, arg.path)
        AddrOf(i) == CHOOSE a \in keys : PathOf(arg.obj, arg.path, a) = ret[i].path
    IN /\ Len(ret) = Cardinality(keys)
       /\ \A i \in 1..Len(ret) :
            /\ \E a \in keys : PathOf(arg.obj, arg.path, a) = ret[i].path
            /\ ret[i].source = "rule-based"
            /\ ret[i].explanation = explain_field(ret[i].path, None).s
       /\ \A i, j \in 1..Len(ret) : i < j => Before(AddrOf(i), AddrOf(j))

\* C5 happens: the entry of a key, then that of its child, then one from the
\* subtree of the key's next sibling, while another key of the tree has no
\* explanation and no entry
C5_Witness ==
  /\ Walked
  /\ \E i \in 1..Len(ret) : \E a, b, c \in ExplainedKeys(arg.obj, arg.path) :
       /\ i + 2 <= Len(ret)
       /\ ret[i].path = PathOf(arg.obj, arg.path, a)
       /\ ret[i + 1].path = PathOf(arg.obj, arg.path, b)
       /\ ret[i + 2].path = PathOf(arg.obj, arg.path, c)
       /\ Parent(b) = a
       /\ IsPrefixOf(Parent(a), c)
       /\ Len(c) >= Len(a)
       /\ c[Len(a)] > a[Len(a)]
  /\ \E a \in Addrs(arg.obj) :
       IsKeyAddr(arg.obj, a) /\ a \notin ExplainedKeys(arg.obj, arg.path)

\* C6: no entry has the path of an element of a sequence, an entry below
\* the element i of a sequence at p has a path that starts with p.i
\* followed by a dot, and nothing is emitted at or below a scalar element.
C6_SequenceElementsNotLookedUp ==
  Walked =>
    LET root == arg.obj
        ElemPath(a) == PathOf(root, arg.path, a)
    IN /\ \A a \in Addrs(root) : \A i \in 1..Len(ret) :
            IsElemAddr(root, a) =>
              /\ ret[i].path # ElemPath(a)
              /\ (~IsDict(NodeAt(root, a)) /\ ~IsList(NodeAt(root, a)))
                   => ~StartsWith(ret[i].path, ElemPath(a) \o ".")
       /\ \A b \in ExplainedKeys(root, arg.path) : \A a \in Addrs(root) :
            (IsElemAddr(root, a) /\ IsPrefixOf(a, b))
              => \E i \in 1..Len(ret) :
                   /\ ret[i].path = PathOf(root, arg.path, b)
                   /\ StartsWith(ret[i].path, ElemPath(a) \o ".")

\* C6 happens: a sequence with a scalar element and a mapping element, and
\* an entry for a key of the mapping element
C6_Witness ==
  /\ Walked
  /\ \E a, s \in Addrs(arg.obj) : \E i \in 1..Len(ret) :
       /\ IsElemAddr(arg.obj, a) /\ IsElemAddr(arg.obj, s)
       /\ Parent(a) = Parent(s)
       /\ IsStr(NodeAt(arg.obj, s))
       /\ a \o <<1>> \in ExplainedKeys(arg.obj, arg.path)
       /\ ret[i].path = PathOf(arg.obj, arg.path, a \o <<1>>)

(***************************************************************************)
(* Properties of validate_structure                                        *)
(***************************************************************************)
Validated == op = "validate_structure" /\ pc = "done"

\* the call validated one resource, of the given kind
ValidatedOne(kind) ==
  /\ Validated
  /\ Len(arg.resources) = 1
  /\ Get(arg.resources[1], "kind", None) = Str(kind)

TheContent == Get(arg.resources[1], "content", EmptyDict)
TheSpec == Get(TheContent, "spec", EmptyDict)

PathsOf(issues) == [i \in 1..Len(issues) |-> issues[i].path]
ErrorsOf(issues) == SelectSeq(issues, LAMBDA x : x.severity = "error")

\* the issues that the claim names as not affecting validity: a label
\* mismatch, a Service without selector, an Ingress without rules, a
\* deprecated API version
IsRecoverable(issue) ==
  \/ issue.path = "spec.selector.matchLabels"
  \/ issue.path = "spec.rules"
  \/ issue.path = "spec.selector" /\ StartsWith(issue.message, "Service '")
  \/ issue.path = "apiVersion" /\ EndsWith(issue.message, "is deprecated")

\* C7: is_valid is true exactly when no returned issue has severity error,
\* and the label-mismatch, Service-selector, Ingress-rules and deprecation
\* issues are warnings, so they never make the result invalid.
C7_ValidIffNoError ==
  Validated =>
    /\ ret.is_valid = (\A i \in 1..Len(ret.issues) : ret.issues[i].severity # "error")
    /\ \A i \in 1..Len(ret.issues) :
         IsRecoverable(ret.issues[i]) => ret.issues[i].severity \in {"warning", "info"}

\* C7 happens: a label mismatch and a deprecated API version are reported
\* and the result is valid
C7_Witness ==
  /\ Validated
  /\ ret.is_valid
  /\ \E i, j \in 1..Len(ret.issues) :
       /\ ret.issues[i].path = "spec.selector.matchLabels"
       /\ ret.issues[j].path = "apiVersion"

\* C8: for a Deployment with a template, every key of spec.selector.matchLabels
\* for which spec.template.metadata.labels has another value or no value,
\* also when the template has no labels at all, gets a warning at
\* spec.selector.matchLabels.
C8_EveryUnmatchedSelectorLabelWarned ==
  (ValidatedOne("Deployment") /\ Truthy(TheSpec) /\ HasKey(TheSpec, "template"))
    => LET selector_labels ==
             Get(Get(TheSpec, "selector", EmptyDict), "matchLabels", EmptyDict)
           template_labels ==
             Get(Get(Get(TheSpec, "template", None), "metadata", EmptyDict),
                 "labels", EmptyDict)
       IN \A n \in 1..Len(selector_labels.items) :
            Get(template_labels, selector_labels.items[n].k, Absent)
                # selector_labels.items[n].v
              => \E i \in 1..Len(ret.issues) :
                   /\ ret.issues[i].severity = "warning"
                   /\ ret.issues[i].path = "spec.selector.matchLabels"
                   /\ ret.issues[i].message =
                        "Selector label '" \o selector_labels.items[n].k
                          \o "' doesn't match template labels"

DeploymentPaths ==
  {"spec", "spec.selector", "spec.template", "spec.template.spec.containers",
   "spec.selector.matchLabels"}

\* the issues of the Deployment checks among the issues returned
DeploymentIssues == SelectSeq(ret.issues, LAMBDA x : x.path \in DeploymentPaths)

NoTemplateContainers ==
  ~Truthy(Get(Get(Get(TheSpec, "template", None), "spec", EmptyDict),
              "containers", None))

\* C9: a Deployment without spec, or with an empty one, gets the error at
\* spec as its only Deployment issue; otherwise the errors are those at
\* spec.selector (no selector), spec.template (no template) and
\* spec.template.spec.containers (template without containers), in this order.
C9_DeploymentErrors ==
  ValidatedOne("Deployment") =>
    IF ~Truthy(TheSpec)
      THEN /\ PathsOf(DeploymentIssues) = <<"spec">>
           /\ DeploymentIssues[1].severity = "error"
      ELSE PathsOf(ErrorsOf(DeploymentIssues)) =
             (IF ~HasKey(TheSpec, "selector") THEN <<"spec.selector">> ELSE <<>>)
             \o (IF ~HasKey(TheSpec, "template") THEN <<"spec.template">>
                 ELSE IF NoTemplateContainers THEN <<"spec.template.spec.containers">>
                 ELSE <<>>)

\* C9 happens: no selector and a template without containers
C9_Witness ==
  /\ ValidatedOne("Deployment")
  /\ Truthy(TheSpec)
  /\ ~HasKey(TheSpec, "selector")
  /\ HasKey(TheSpec, "template")
  /\ PathsOf(ErrorsOf(DeploymentIssues)) =
       <<"spec.selector", "spec.template.spec.containers">>

\* the issue list holds an error at the path
HasErrorAt(path) ==
  \E i \in 1..Len(ret.issues) :
    ret.issues[i].severity = "error" /\ ret.issues[i].path = path

\* C10: for a Pod with a non-empty spec, a container i without name gets an
\* error at spec.containers[i].name, a container without image gets an
\* error at spec.containers[i].image whose message names the container by
\* its name if it has one and by its index otherwise, and a named Pod with
\* one container that has a name and no image gets one error in total.
C10_PodContainerErrors ==
  (ValidatedOne("Pod") /\ Truthy(TheSpec))
    => LET containers == Get(TheSpec, "containers", List(<<>>)).elems
           Name(n) == Get(containers[n], "name", None)
           NoImage(n) == ~Truthy(Get(containers[n], "image", None))
           At(n, field) == "spec.containers[" \o ToString(n - 1) \o "]." \o field
       IN /\ \A n \in 1..Len(containers) :
               /\ ~Truthy(Name(n)) => HasErrorAt(At(n, "name"))
               /\ NoImage(n) =>
                    \E i \in 1..Len(ret.issues) :
                      /\ ret.issues[i].severity = "error"
                      /\ ret.issues[i].path = At(n, "image")
                      /\ ret.issues[i].message =
                           "Container '"
                             \o (IF Truthy(Name(n)) THEN PyStr(Name(n))
                                                    ELSE ToString(n - 1))
                             \o "' missing image"
          /\ (/\ Truthy(Get(Get(TheContent, "metadata", EmptyDict), "name", None))
              /\ Len(containers) = 1
              /\ Truthy(Name(1))
              /\ NoImage(1))
               => Len(ErrorsOf(ret.issues)) = 1

ServicePaths == {"spec", "spec.selector", "spec.ports"}

\* the issues of the Service checks among the issues returned
ServiceIssues == SelectSeq(ret.issues, LAMBDA x : x.path \in ServicePaths)

SeveritiesOf(issues) == [i \in 1..Len(issues) |-> issues[i].severity]

\* C11: a Service without spec, or with an empty one, gets the error at spec
\* as its only Service issue; otherwise a missing or empty selector gives a
\* warning at spec.selector unless the type is ExternalName, a missing or
\* empty ports gives an error at spec.ports, the warning before the error.
C11_ServiceIssues ==
  ValidatedOne("Service") =>
    IF ~Truthy(TheSpec)
      THEN /\ PathsOf(ServiceIssues) = <<"spec">>
           /\ SeveritiesOf(ServiceIssues) = <<"error">>
      ELSE LET warned == /\ ~Truthy(Get(TheSpec, "selector", None))
                         /\ Get(TheSpec, "type", None) # Str("ExternalName")
               no_ports == ~Truthy(Get(TheSpec, "ports", None))
           IN /\ PathsOf(ServiceIssues) =
                   (IF warned THEN <<"spec.selector">> ELSE <<>>)
                   \o (IF no_ports THEN <<"spec.ports">> ELSE <<>>)
              /\ SeveritiesOf(ServiceIssues) =
                   (IF warned THEN <<"warning">> ELSE <<>>)
                   \o (IF no_ports THEN <<"error">> ELSE <<>>)

\* C11 happens: an ExternalName Service without selector and without ports
\* gets the ports error only
C11_Witness ==
  /\ ValidatedOne("Service")
  /\ Truthy(TheSpec)
  /\ Get(TheSpec, "type", None) = Str("ExternalName")
  /\ ~HasKey(TheSpec, "selector")
  /\ PathsOf(ServiceIssues) = <<"spec.ports">>

IngressPaths == {"spec", "spec.rules", "spec.defaultBackend"}

\* the issues of the Ingress checks among the issues returned
IngressIssues == SelectSeq(ret.issues, LAMBDA x : x.path \in IngressPaths)

\* C12: an Ingress without spec, or with an empty one, gets the error at
\* spec as its only Ingress issue; otherwise it gets one warning at
\* spec.rules exactly when rules and defaultBackend are both absent or
\* empty, and no Ingress error.
C12_IngressIssues ==
  ValidatedOne("Ingress") =>
    IF ~Truthy(TheSpec)
      THEN /\ PathsOf(IngressIssues) = <<"spec">>
           /\ SeveritiesOf(IngressIssues) = <<"error">>
      ELSE LET unrouted == /\ ~Truthy(Get(TheSpec, "rules", None))
                           /\ ~Truthy(Get(TheSpec, "defaultBackend", None))
           IN /\ PathsOf(IngressIssues) =
                   (IF unrouted THEN <<"spec.rules">> ELSE <<>>)
              /\ SeveritiesOf(IngressIssues) =
                   (IF unrouted THEN <<"warning">> ELSE <<>>)

\* C12 happens: an Ingress with empty rules and a defaultBackend gets no
\* Ingress issue
C12_Witness ==
  /\ ValidatedOne("Ingress")
  /\ Get(TheSpec, "rules", None) = List(<<>>)
  /\ Truthy(Get(TheSpec, "defaultBackend", None))
  /\ IngressIssues = <<>>

\* the deprecation warnings among the issues returned
DeprecationWarnings ==
  SelectSeq(ret.issues, LAMBDA x : x.path = "apiVersion" /\ x.severity = "warning")

KindOf(resource) == Get(resource, "kind", None)
ApiVersionOf(resource) == Get(resource, "api_version", None)

\* the resources of the call whose (kind, api_version) is in the table
DeprecatedResources ==
  SelectSeq(arg.resources, LAMBDA r : IsDeprecated(KindOf(r), ApiVersionOf(r)))

\* C13: every resource whose (kind, api_version) is a key of the
\* deprecation table gets one warning at apiVersion that names the table's
\* replacement and removal release, whatever else was found, and no other
\* resource gets one; (Deployment, extensions/v1beta1) recommends apps/v1
\* removed in 1.16 and (Deployment, apps/v1) gets none.
C13_DeprecationWarning ==
  Validated =>
    /\ Len(DeprecationWarnings) = Len(DeprecatedResources)
    /\ \A n \in 1..Len(DeprecatedResources) :
         \E i \in 1..Len(deprecated_apis) :
           /\ Str(deprecated_apis[i][1]) = KindOf(DeprecatedResources[n])
           /\ Str(deprecated_apis[i][2]) = ApiVersionOf(DeprecatedResources[n])
           /\ DeprecationWarnings[n].suggestion =
                "Use '" \o deprecated_apis[i][3]
                  \o "' instead (removed in Kubernetes "
                  \o deprecated_apis[i][4] \o ")"
    /\ \A n \in 1..Len(arg.resources) :
         /\ (/\ Len(arg.resources) = 1
             /\ KindOf(arg.resources[n]) = Str("Deployment")
             /\ ApiVersionOf(arg.resources[n]) = Str("extensions/v1beta1"))
              => /\ Len(DeprecationWarnings) = 1
                 /\ DeprecationWarnings[1].suggestion =
                      "Use 'apps/v1' instead (removed in Kubernetes 1.16)"
         /\ (/\ Len(arg.resources) = 1
             /\ KindOf(arg.resources[n]) = Str("Deployment")
             /\ ApiVersionOf(arg.resources[n]) = Str("apps/v1"))
              => DeprecationWarnings = <<>>

\* C13 happens: a deprecated Deployment whose checks stop at the missing
\* spec still gets the warning
C13_Witness ==
  /\ ValidatedOne("Deployment")
  /\ ~Truthy(TheSpec)
  /\ ApiVersionOf(arg.resources[1]) = Str("extensions/v1beta1")
  /\ PathsOf(DeploymentIssues) = <<"spec">>
  /\ Len(DeprecationWarnings) = 1

\* the place of an issue in the order of the checks of one resource
CheckRank(issue) ==
  IF issue.path = "kind" THEN 1
  ELSE IF issue.path = "apiVersion" /\ issue.severity = "error" THEN 2
  ELSE IF issue.path = "metadata.name" THEN 3
  ELSE IF issue.path = "apiVersion" THEN 5
  ELSE 4

\* the issues of the resources from the i-th on, each validated alone
RECURSIVE IssuesOneByOne(_, _)
IssuesOneByOne(resources, i) ==
  IF i > Len(resources) THEN <<>>
  ELSE validate_structure(<<resources[i]>>).issues \o IssuesOneByOne(resources, i + 1)

\* C14: the issue list is the concatenation, in input order, of the issues
\* that each resource gets when validated alone, and the issues of one
\* resource come in the order global checks (kind, apiVersion,
\* metadata.name), kind-specific checks, deprecation warning.
C14_IssueOrder ==
  Validated =>
    /\ ret.issues = IssuesOneByOne(arg.resources, 1)
    /\ Len(arg.resources) = 1 =>
         \A i, j \in 1..Len(ret.issues) :
           i < j => CheckRank(ret.issues[i]) <= CheckRank(ret.issues[j])

\* C14 happens: two resources, the first with an error and a short-circuit
\* on its missing spec, the second with issues of its own after them
C14_Witness ==
  /\ Validated
  /\ Len(arg.resources) = 2
  /\ LET first == validate_structure(<<arg.resources[1]>>).issues
         second == validate_structure(<<arg.resources[2]>>).issues
     IN /\ \E i \in 1..Len(first) : first[i].path = "spec" /\ first[i].severity = "error"
        /\ second # <<>>
        /\ second # first
        /\ ret.issues = first \o second


\* C15: validate_structure raises for no list of resources whose content
\* is a parsed mapping, whatever the fields hold, and returns a validity
\* flag and a list of issues.
C15_ValidateNeverRaises ==
  Validated => ~DidRaise(ret) /\ DOMAIN ret = {"is_valid", "issues"}


Extracted == op = "extract_resources" /\ pc = "done"

\* a mapping document whose kind and apiVersion are present and non-empty
IsResourceDocument(doc) ==
  /\ IsDict(doc)
  /\ HasKey(doc, "kind") /\ Truthy(Get(doc, "kind", None))
  /\ HasKey(doc, "apiVersion") /\ Truthy(Get(doc, "apiVersion", None))

ResourceDocuments == SelectSeq(arg.documents, IsResourceDocument)

\* the metadata of every resource document is a mapping, or is absent
MetadataAreMappings ==
  \A i \in 1..Len(ResourceDocuments) :
    ~HasKey(ResourceDocuments[i], "metadata")
      \/ IsDict(Get(ResourceDocuments[i], "metadata", None))

\* metadata.<field> of a document, None when the metadata or the field is
\* absent
MetadataField(doc, field) ==
  IF HasKey(doc, "metadata") /\ HasKey(Get(doc, "metadata", None), field)
    THEN Get(Get(doc, "metadata", None), field, None)
    ELSE None

\* C16: extract_resources returns, in input order, one resource for every
\* mapping document that has a non-empty kind and apiVersion, with the
\* document's kind, apiVersion, metadata.name and metadata.namespace (None
\* when absent) and the document as content; every other document is
\* skipped, and one resource document alone gives one resource. Stated for
\* the documents whose metadata is a mapping or is absent.
C16_ExtractedResources ==
  (Extracted /\ MetadataAreMappings) =>
    /\ ~DidRaise(ret)
    /\ Len(ret.resources) = Len(ResourceDocuments)
    /\ \A i \in 1..Len(ResourceDocuments) :
         LET doc == ResourceDocuments[i]
             resource == ret.resources[i]
         IN /\ Get(resource, "kind", Absent) = Get(doc, "kind", None)
            /\ Get(resource, "api_version", Absent) = Get(doc, "apiVersion", None)
            /\ Get(resource, "name", Absent) = MetadataField(doc, "name")
            /\ Get(resource, "namespace", Absent) = MetadataField(doc, "namespace")
            /\ Get(resource, "content", Absent) = doc
    /\ (Len(arg.documents) = 1 /\ IsResourceDocument(arg.documents[1]))
         => Len(ret.resources) = 1

\* C16 happens: a document without apiVersion is skipped, the resource of
\* the document after it has no namespace
C16_Witness ==
  /\ Extracted
  /\ MetadataAreMappings
  /\ Len(arg.documents) = 2
  /\ IsDict(arg.documents[1]) /\ ~HasKey(arg.documents[1], "apiVersion")
  /\ Len(ret.resources) = 1
  /\ Get(ret.resources[1], "name", Absent) = Str("api")
  /\ Get(ret.resources[1], "namespace", Absent) = None
  /\ Get(ret.resources[1], "content", Absent) = arg.documents[2]

\* C17: extract_resources raises for no list of mapping documents: a
\* resource document whose metadata is null, or is no mapping, gives a
\* resource without name and without namespace.
C17_ExtractNeverRaises ==
  Extracted =>
    /\ ~DidRaise(ret)
    /\ Len(ret.resources) = Len(ResourceDocuments)
    /\ \A i \in 1..Len(ResourceDocuments) :
         ~IsDict(Get(ResourceDocuments[i], "metadata", EmptyDict))
           => /\ Get(ret.resources[i], "name", Absent) = None
              /\ Get(ret.resources[i], "namespace", Absent) = None


Parsed == op = "parse" /\ pc = "done"

\* every document of the text loads, as null or as a mapping
LoadsAsMappings ==
  \A i \in 1..Len(arg.stream) :
    /\ ~IsLoadError(arg.stream[i])
    /\ IsNone(arg.stream[i].loaded) \/ IsDict(arg.stream[i].loaded)

\* the documents of the text that are not null, in the order of the text
LoadedDocuments ==
  LET kept == SelectSeq(arg.stream, LAMBDA e : ~IsNone(e.loaded))
  IN [i \in 1..Len(kept) |-> kept[i].loaded]

\* C18: when every document loads as null or as a mapping, parse skips
\* the null documents and returns ok with the other documents in the order
\* of the text if there is one; if there is none, the empty text included,
\* it returns not ok, no document and the error "No valid YAML documents
\* found".
C18_NullDocumentsSkipped ==
  (Parsed /\ LoadsAsMappings) =>
    IF LoadedDocuments # <<>>
      THEN ret.ok /\ ret.documents = LoadedDocuments
      ELSE /\ ~ret.ok
           /\ ret.documents = <<>>
           /\ ret.error = "No valid YAML documents found"

\* C18 happens: a null document before a mapping is skipped
C18_Witness ==
  /\ Parsed
  /\ Len(arg.stream) = 2
  /\ arg.stream[1] = Loaded(None)
  /\ arg.stream[2] = Loaded(PodDocument)
  /\ ret.ok
  /\ ret.documents = <<PodDocument>>

\* loading or converting the i-th document of the text fails
FailsAt(i) ==
  \/ IsLoadError(arg.stream[i])
  \/ /\ ~IsLoadError(arg.stream[i])
     /\ ~IsNone(arg.stream[i].loaded)
     /\ DictRaises(arg.stream[i].loaded)

\* str(e) of the failure at the i-th document
FailureMessage(i) ==
  IF IsLoadError(arg.stream[i]) THEN arg.stream[i].error
  ELSE DictError(arg.stream[i].loaded)

\* C19: parse does not raise: when loading or converting a document fails,
\* wherever the document is in the text, parse returns not ok, no document
\* (not even the documents loaded before the failure) and an error that
\* contains the message of the exception.
C19_ParseFailure ==
  Parsed =>
    /\ DOMAIN ret = {"ok", "documents", "error"}
    /\ \A i \in 1..Len(arg.stream) :
         (FailsAt(i) /\ \A j \in 1..(i - 1) : ~FailsAt(j))
           => /\ ~ret.ok
              /\ ret.documents = <<>>
              /\ Contains(ret.error, FailureMessage(i))

\* C19 happens: the loader fails on the second document, the first one is
\* not returned
C19_Witness ==
  /\ Parsed
  /\ Len(arg.stream) = 2
  /\ arg.stream[1] = Loaded(PodDocument)
  /\ IsLoadError(arg.stream[2])
  /\ ~ret.ok
  /\ ret.documents = <<>>
  /\ ret.error = "YAML parsing error: mapping values are not allowed here"


Routed == op \in {"validate_yaml", "explain_yaml"} /\ pc = "done"

\* the text is well formed: the loader reads it to its end
WellFormed == \A i \in 1..Len(arg.content) : ~IsLoadError(arg.content[i])

\* the text has a document that is not null
HasDocument ==
  \E i \in 1..Len(arg.content) :
    ~IsLoadError(arg.content[i]) /\ ~IsNone(arg.content[i].loaded)

\* the text has a document with a kind and an apiVersion
HasResourceDocument ==
  \E i \in 1..Len(arg.content) :
    ~IsLoadError(arg.content[i]) /\ IsResourceDocument(arg.content[i].loaded)

IsParseError(error) ==
  /\ IsStr(error)
  /\ \/ StartsWith(error.s, "YAML parsing error: ")
     \/ error.s = "No valid YAML documents found"

\* C20: the validate and explain routes answer a well-formed text that has
\* documents but none with a kind and an apiVersion (a scalar, a sequence,
\* a mapping without kind) with the error "No valid Kubernetes resources
\* found", and answer with a parse error ("YAML parsing error: ..." or "No
\* valid YAML documents found") only a text that is malformed or empty.
C20_FailureClassesDistinct ==
  Routed =>
    /\ (WellFormed /\ HasDocument /\ ~HasResourceDocument)
         => /\ ~DidRaise(ret)
            /\ ret.error = Str("No valid Kubernetes resources found")
    /\ (~DidRaise(ret) /\ IsParseError(ret.error))
         => (~WellFormed \/ ~HasDocument)


(***************************************************************************)
(* Properties of the routes: the explain route with and without the        *)
(* language model                                                          *)
(***************************************************************************)
ExplainedWithLLM ==
  /\ op = "explain_yaml" /\ pc = "done"
  /\ arg.use_llm
  /\ ~DidRaise(ret)
  /\ ret.success

\* the response to the same manifest with use_llm = false
PlainResponse == explain_yaml(arg.content, FALSE, NoConnection)

\* there is no active connection, or the language model fails or raises
LLMUnavailable ==
  \/ ~arg.llm.active
  \/ arg.llm.raises
  \/ ~arg.llm.llm_success

\* C22: for a manifest with a resource, the response with use_llm = true
\* has the resources and the rule-based entries of the response with
\* use_llm = false, in the same order; it differs at most by one entry at
\* index 0 with path "_llm_summary" and source "llm", by the summary and
\* by llm_used, and it is the same response when there is no active
\* connection or the language model fails or raises.
C22_LLMOnlyAddsItsEntry ==
  ExplainedWithLLM =>
    LET plain == PlainResponse
    IN /\ plain.success
       /\ ret.resources = plain.resources
       /\ ret.error = plain.error
       /\ \A i \in 1..Len(plain.explanations) :
            plain.explanations[i].source = "rule-based"
       /\ \/ ret = plain
          \/ /\ ret.llm_used
             /\ Len(ret.explanations) = Len(plain.explanations) + 1
             /\ ret.explanations[1].path = "_llm_summary"
             /\ ret.explanations[1].source = "llm"
             /\ Tail(ret.explanations) = plain.explanations
       /\ LLMUnavailable => ret = plain

\* C22 happens: the language model's entry comes before the rule-based
\* entries of a manifest, which are those of the response without it
C22_Witness ==
  /\ ExplainedWithLLM
  /\ ret.llm_used
  /\ PlainResponse.explanations # <<>>
  /\ ret.explanations[1].source = "llm"
  /\ Tail(ret.explanations) = PlainResponse.explanations
  /\ ret.summary # PlainResponse.summary

(***************************************************************************)
(* Properties of generate_summary                                          *)
(***************************************************************************)
Summarized == op = "generate_summary" /\ pc = "done"

\* the name that the summary is to show for a resource
ShownName(resource) ==
  IF Truthy(Get(resource, "name", None)) THEN PyStr(Get(resource, "name", None))
  ELSE "unnamed"

\* the line of the summary for the idx-th resource
SummaryLine(idx, resource) ==
  "\n" \o ToString(idx) \o ". **" \o PyStr(Get(resource, "kind", None))
    \o "** named '" \o ShownName(resource) \o "'"

\* C21: the summary of the resources that extract_resources produced has,
\* for each resource, a line with its 1-based ordinal, its kind and its
\* name in quotes, "unnamed" only for a resource without name; the summary
\* of no resource is the fixed sentence.
C21_SummaryNamesResources ==
  Summarized =>
    IF arg.resources = <<>>
      THEN ret.summary = "No resources found in the manifest."
      ELSE \A i \in 1..Len(arg.resources) :
             Contains(ret.summary, SummaryLine(i, arg.resources[i]))

(***************************************************************************)
(* Properties of generate_yaml                                             *)
(***************************************************************************)
Generated == op = "generate_yaml" /\ pc # "call"
GeneratedAndExtracted == op = "generate_yaml" /\ pc \in {"extracted", "done"}
GeneratedAndValidated == op = "generate_yaml" /\ pc = "done"

\* the kind, the apiVersion and the default name of a resource type
TypeKind(resource_type) ==
  IF resource_type = "deployment" THEN "Deployment"
  ELSE IF resource_type = "service" THEN "Service"
  ELSE IF resource_type = "ingress" THEN "Ingress"
  ELSE "ConfigMap"

TypeApiVersion(resource_type) ==
  IF resource_type = "deployment" THEN "apps/v1"
  ELSE IF resource_type = "ingress" THEN "networking.k8s.io/v1"
  ELSE "v1"

TypeDefaultName(resource_type) ==
  IF resource_type = "deployment" THEN "my-deployment"
  ELSE IF resource_type = "service" THEN "my-service"
  ELSE IF resource_type = "ingress" THEN "my-ingress"
  ELSE "my-config"

\* the name of the config, or the default name of the type
ExpectedName ==
  IF HasKey(arg.config, "name") THEN Get(arg.config, "name", None)
  ELSE Str(TypeDefaultName(arg.resource_type))

\* the name of the config is a non-empty string, or is absent
NameIsGiven ==
  HasKey(arg.config, "name") =>
    IsStr(Get(arg.config, "name", None)) /\ Get(arg.config, "name", None) # Str("")

\* C23: for each of the four types and every config whose name is a
\* non-empty string or is absent, parsing and extracting the generated text
\* gives one resource whose kind, api_version and name are the kind, the
\* apiVersion and the metadata.name of the generated tree, the name being
\* the config's name or the default name of the type.
C23_GeneratedRoundTrip ==
  (GeneratedAndExtracted /\ NameIsGiven) =>
    /\ ~DidRaise(ret.resources)
    /\ Len(ret.resources.resources) = 1
    /\ LET resource == ret.resources.resources[1]
           tree == GenerateContent(arg.resource_type, arg.config)
       IN /\ Get(resource, "kind", Absent) = Get(tree, "kind", None)
          /\ Get(resource, "api_version", Absent) = Get(tree, "apiVersion", None)
          /\ Get(resource, "name", Absent) = Get(Get(tree, "metadata", None), "name", None)
          /\ Get(resource, "kind", Absent) = Str(TypeKind(arg.resource_type))
          /\ Get(resource, "api_version", Absent) = Str(TypeApiVersion(arg.resource_type))
          /\ Get(resource, "name", Absent) = ExpectedName

\* every supported type is generated, parsed and extracted
GeneratedTypesAreExtracted ==
  (Generated /\ arg.resource_type \in ResourceTypes) =>
    /\ ret.generated.ok
    /\ pc \in {"parsed", "extracted", "done"} => ret.parsed.ok

\* C23 happens: the name 123, a string that reads as a number, comes back
\* as the string
C23_Witness ==
  /\ GeneratedAndExtracted
  /\ arg.resource_type = "service"
  /\ Get(arg.config, "name", None) = Str("123")
  /\ Get(ret.resources.resources[1], "name", Absent) = Str("123")
  /\ Get(ret.resources.resources[1], "kind", Absent) = Str("Service")

\* C24: for every config whose name is a non-empty string or is absent,
\* the generated Deployment, parsed, extracted and validated, is one
\* resource of kind Deployment with the config's name, and
\* validate_structure returns is_valid = true and no error.
C24_GeneratedDeploymentIsValid ==
  (GeneratedAndValidated /\ arg.resource_type = "deployment" /\ NameIsGiven) =>
    /\ Len(ret.resources.resources) = 1
    /\ Get(ret.resources.resources[1], "kind", Absent) = Str("Deployment")
    /\ Get(ret.resources.resources[1], "name", Absent) = ExpectedName
    /\ ~DidRaise(ret.validated)
    /\ ret.validated.is_valid
    /\ \A i \in 1..Len(ret.validated.issues) :
         ret.validated.issues[i].severity # "error"

\* C24 happens: the config {name: api, image: myimg:1, replicas: 2}
C24_Witness ==
  /\ GeneratedAndValidated
  /\ arg.resource_type = "deployment"
  /\ arg.config = Dict(<<Item("name", Str("api")), Item("image", Str("myimg:1")),
                         Item("replicas", Num(2))>>)
  /\ Get(ret.resources.resources[1], "name", Absent) = Str("api")
  /\ ret.validated = [is_valid |-> TRUE, issues |-> <<>>]

\* C25: generate_yaml succeeds exactly for the resource types deployment,
\* service, ingress and configmap, compared with their case; for any other
\* resource_type it returns not ok, an empty text and an error that holds
\* the type, and it does not raise.
C25_FourResourceTypes ==
  Generated =>
    /\ DOMAIN ret.generated = {"ok", "yaml", "error"}
    /\ ret.generated.ok <=>
         arg.resource_type \in {"deployment", "service", "ingress", "configmap"}
    /\ ret.generated.ok => ret.generated.yaml # EmptyText /\ ret.generated.error = ""
    /\ ~ret.generated.ok =>
         /\ ret.generated.yaml = EmptyText
         /\ Contains(ret.generated.error, arg.resource_type)

\* C25 happens: the type Deployment, with a capital, is unknown
C25_Witness ==
  /\ Generated
  /\ arg.resource_type = "Deployment"
  /\ ~ret.generated.ok
  /\ ret.generated.error = "Unknown resource type: Deployment"

\* the value at a path of a tree: a key of a dict, a position of a list
RECURSIVE FieldAt(_, _)
FieldAt(tree, path) ==
  IF path = <<>> THEN tree
  ELSE IF IsDict(tree) THEN FieldAt(Get(tree, Head(path), None), Tail(path))
  ELSE FieldAt(tree.elems[1], Tail(path))

\* the output fields that a config key feeds: <<type, key, path>>; the
\* element "0" of a path is the first element of a list
ConfigFields ==
  { <<"deployment", "name", <<"metadata", "name">> >>,
    <<"deployment", "name", <<"spec", "selector", "matchLabels", "app">> >>,
    <<"deployment", "image",
      <<"spec", "template", "spec", "containers", "0", "image">> >>,
    <<"deployment", "replicas", <<"spec", "replicas">> >>,
    <<"deployment", "port",
      <<"spec", "template", "spec", "containers", "0", "ports", "0", "containerPort">> >>,
    <<"service", "name", <<"metadata", "name">> >>,
    <<"service", "app", <<"spec", "selector", "app">> >>,
    <<"service", "port", <<"spec", "ports", "0", "port">> >>,
    <<"service", "targetPort", <<"spec", "ports", "0", "targetPort">> >>,
    <<"service", "type", <<"spec", "type">> >>,
    <<"ingress", "name", <<"metadata", "name">> >>,
    <<"ingress", "host", <<"spec", "rules", "0", "host">> >>,
    <<"ingress", "serviceName",
      <<"spec", "rules", "0", "http", "paths", "0", "backend", "service", "name">> >>,
    <<"ingress", "servicePort",
      <<"spec", "rules", "0", "http", "paths", "0", "backend", "service", "port", "number">> >>,
    <<"ingress", "path", <<"spec", "rules", "0", "http", "paths", "0", "path">> >>,
    <<"configmap", "name", <<"metadata", "name">> >>,
    <<"configmap", "data", <<"data">> >> }

\* the tree of the generated text
GeneratedTree == LoadNode(ret.generated.yaml.docs[1])

\* the tree of the text generated for the empty config: all the defaults
DefaultTree(resource_type) ==
  LoadNode(generate_yaml(resource_type, EmptyDict).yaml.docs[1])

\* the fields of the keys that the config lacks have the value they have
\* for the empty config, but for the keys in derived
AbsentKeysHaveFixedDefaults(derived) ==
  \A f \in ConfigFields :
    (/\ f[1] = arg.resource_type
     /\ <<f[1], f[2]>> \notin derived
     /\ ~HasKey(arg.config, f[2]))
      => FieldAt(GeneratedTree, f[3]) = FieldAt(DefaultTree(f[1]), f[3])

\* the targetPort of a Service without targetPort is its port
TargetPortIsPort ==
  (arg.resource_type = "service" /\ ~HasKey(arg.config, "targetPort"))
    => /\ FieldAt(GeneratedTree, <<"spec", "ports", "0", "targetPort">>)
            = FieldAt(GeneratedTree, <<"spec", "ports", "0", "port">>)
       /\ FieldAt(GeneratedTree, <<"spec", "ports", "0", "port">>)
            = Get(arg.config, "port", Num(80))

\* C26: the only output field whose default comes from another config
\* value is the targetPort of the Service, which is the port (the config's
\* port, or 80) when no targetPort is given; every other key that the
\* config lacks falls back to a fixed default.
C26_OnlyTargetPortDerived ==
  (Generated /\ ret.generated.ok) =>
    /\ TargetPortIsPort
    /\ AbsentKeysHaveFixedDefaults({<<"service", "targetPort">>})

\* C26, amended: the output fields whose default comes from another config
\* value are the targetPort of the Service, which is the port when no
\* targetPort is given, and the app label of the Service selector, which is
\* the name (the config's name, or my-service) when no app is given; every
\* other key that the config lacks falls back to a fixed default.
C26_TargetPortAndAppDerived ==
  (Generated /\ ret.generated.ok) =>
    /\ TargetPortIsPort
    /\ (arg.resource_type = "service" /\ ~HasKey(arg.config, "app"))
         => /\ FieldAt(GeneratedTree, <<"spec", "selector", "app">>)
                 = FieldAt(GeneratedTree, <<"metadata", "name">>)
            /\ FieldAt(GeneratedTree, <<"metadata", "name">>)
                 = Get(arg.config, "name", Str("my-service"))
    /\ AbsentKeysHaveFixedDefaults({<<"service", "targetPort">>, <<"service", "app">>})

\* C26 happens: a Service with a name and a port, without app and without
\* targetPort
C26_Witness ==
  /\ Generated
  /\ arg.resource_type = "service"
  /\ arg.config = Dict(<<Item("name", Str("api")), Item("port", Num(8080))>>)
  /\ FieldAt(GeneratedTree, <<"spec", "selector", "app">>) = Str("api")
  /\ FieldAt(GeneratedTree, <<"spec", "ports", "0", "targetPort">>) = Num(8080)
  /\ FieldAt(GeneratedTree, <<"spec", "type">>) = Str("ClusterIP")

(***************************************************************************)
(* CryptoService: encrypt and decrypt.  The Fernet cipher is a library;    *)
(* a token is modelled by the key that signed it, the bytes it holds and   *)
(* the random IV and time stamp that make two tokens of one text differ.   *)
(***************************************************************************)
DefaultMasterKey == "kubernetes-yaml-explainer-default-key"

\* CryptoService.__init__: the key derived from ENCRYPTION_KEY, or from the
\* default master key when the variable is unset or empty
CipherKey(env) ==
  IF Truthy(env) THEN [derived_from |-> env.s]
  ELSE [derived_from |-> DefaultMasterKey]

\* bytes: the encoding of a text, or bytes that are no UTF-8
Utf8(s) == [utf8 |-> s]
InvalidUtf8 == [invalid |-> TRUE]

\* bytes.decode()
BytesDecode(bytes) ==
  IF bytes = InvalidUtf8 THEN Raised ELSE Str(bytes.utf8)

\* a text that is no token, and the text of a token
Text(s) == [text |-> s]
Token(key, data, iv) == [key |-> key, data |-> data, iv |-> iv]
IsToken(ciphertext) == DOMAIN ciphertext = {"key", "data", "iv"}

\* Fernet.decrypt: InvalidToken for a text that is no token and for a token
\* that another key signed
FernetDecrypt(key, ciphertext) ==
  IF ~IsToken(ciphertext) THEN Raised
  ELSE IF ciphertext.key # key THEN Raised
  ELSE ciphertext.data

\* CryptoService.encrypt
encrypt(key, plaintext, iv) ==
  IF plaintext = "" THEN Text("")
  ELSE Token(key, Utf8(plaintext), iv)

\* decrypt without the try block
decryptUnguarded(key, ciphertext) ==
  IF ciphertext = Text("") THEN Str("")
  ELSE LET decrypted == FernetDecrypt(key, ciphertext)
       IN IF DidRaise(decrypted) THEN Raised ELSE BytesDecode(decrypted)

\* CryptoService.decrypt
decrypt(key, ciphertext) ==
  IF ciphertext = Text("") THEN Str("")
  ELSE LET decrypted == FernetDecrypt(key, ciphertext)
       IN IF DidRaise(decrypted) THEN Str("")
          ELSE IF DidRaise(BytesDecode(decrypted)) THEN Str("")
          ELSE BytesDecode(decrypted)

(***************************************************************************)
(* Calls of encrypt and decrypt: a text is encrypted by one service and    *)
(* decrypted by a service that may have another ENCRYPTION_KEY, or a       *)
(* stored ciphertext is decrypted as it is                                 *)
(***************************************************************************)
EncryptionKeys == {None, Str(""), Str(DefaultMasterKey), Str("prod-key")}
Plaintexts == {"", "sk-123", "k"}
IVs == {1, 2}

StoredCiphertexts ==
  {Text(""), Text("not-a-token"), Text("gAAAAAB")}
    \cup {Token(CipherKey(e), d, i) :
            e \in EncryptionKeys, d \in {Utf8("sk-123"), Utf8(""), InvalidUtf8}, i \in IVs}

InitCrypto ==
  /\ op = "crypto"
  /\ arg \in [encrypt_env : EncryptionKeys, decrypt_env : EncryptionKeys,
              plaintext : Plaintexts, ciphertext : StoredCiphertexts]
  /\ ret = None
  /\ store = EmptyStore
  /\ sessions = NoSessions
  /\ pc = "call"

\* encrypt(plaintext) by the service of encrypt_env
Encrypt ==
  /\ op = "crypto"
  /\ pc = "call"
  /\ \E iv \in IVs :
       ret' = [encrypted |-> encrypt(CipherKey(arg.encrypt_env), arg.plaintext, iv),
               decrypted |-> None]
  /\ pc' = "encrypted"
  /\ UNCHANGED <<op, arg, store, sessions>>

\* decrypt of what encrypt returned, by the service of decrypt_env
DecryptEncrypted ==
  /\ op = "crypto"
  /\ pc = "encrypted"
  /\ ret' = [ret EXCEPT !.decrypted = decrypt(CipherKey(arg.decrypt_env), ret.encrypted)]
  /\ pc' = "done"
  /\ UNCHANGED <<op, arg, store, sessions>>

\* decrypt of a stored ciphertext, by the service of decrypt_env
Decrypt ==
  /\ op = "crypto"
  /\ pc = "call"
  /\ ret' = [encrypted |-> None,
             decrypted |-> decrypt(CipherKey(arg.decrypt_env), arg.ciphertext)]
  /\ pc' = "done"
  /\ UNCHANGED <<op, arg, store, sessions>>

NextCrypto == Encrypt \/ DecryptEncrypted \/ Decrypt

SpecCrypto == InitCrypto /\ [][NextCrypto]_vars

(***************************************************************************)
(* Properties of decrypt                                                   *)
(***************************************************************************)
Decrypted == op = "crypto" /\ pc = "done"

\* the ciphertext that was decrypted
DecryptedCiphertext ==
  IF ret.encrypted = None THEN arg.ciphertext ELSE ret.encrypted

\* C27: decrypt does not raise: for a ciphertext that is empty, that is no
\* token, or that the current key did not sign, it returns the empty
\* string; for what encrypt returned for a non-empty plaintext under the
\* same key it returns the plaintext.
C27_DecryptNeverRaises ==
  Decrypted =>
    /\ IsStr(ret.decrypted)
    /\ (\/ DecryptedCiphertext = Text("")
        \/ ~IsToken(DecryptedCiphertext)
        \/ DecryptedCiphertext.key # CipherKey(arg.decrypt_env))
         => ret.decrypted = Str("")
    /\ (/\ ret.encrypted # None
        /\ arg.plaintext # ""
        /\ CipherKey(arg.encrypt_env) = CipherKey(arg.decrypt_env))
         => ret.decrypted = Str(arg.plaintext)

\* C27 happens: a key encrypted by a service without ENCRYPTION_KEY comes
\* back from a service whose ENCRYPTION_KEY is empty
C27_Witness ==
  /\ Decrypted
  /\ ret.encrypted # None
  /\ arg.plaintext = "sk-123"
  /\ arg.encrypt_env = None
  /\ arg.decrypt_env = Str("")
  /\ ret.decrypted = Str("sk-123")

(***************************************************************************)
(* The settings routes of the LLM connections.  A row of llm_connections   *)
(* is modelled by its id, its unique name and is_active; the endpoint, the *)
(* encrypted key, the model name and the headers are written by create and *)
(* update and read by no condition of the routes.                          *)
(***************************************************************************)
MaxConfigs == 2

Row(id, name, is_active) == [id |-> id, name |-> name, is_active |-> is_active]

Ids(rows) == {r.id : r \in rows}
RowOf(rows, id) == CHOOSE r \in rows : r.id = id

\* the id that the table gives to a new row
NewId(rows) ==
  IF rows = {} THEN 1
  ELSE (CHOOSE i \in Ids(rows) : \A j \in Ids(rows) : j <= i) + 1

\* session.commit(): the unit of work writes, for each row of the session,
\* the attributes whose value is not the loaded one
Flush(rows, loaded, current) ==
  {IF r.id \in Ids(current)
     THEN LET was == RowOf(loaded, r.id)
              now == RowOf(current, r.id)
          IN Row(r.id,
                 IF now.name # was.name THEN now.name ELSE r.name,
                 IF now.is_active # was.is_active THEN now.is_active ELSE r.is_active)
   ELSE r : r \in rows}

\* the unique index of the names holds after the flush
NamesAreUnique(rows) ==
  \A r1, r2 \in rows : r1.name = r2.name => r1.id = r2.id

Response(status, id) == [status |-> status, id |-> id]

\* what result.scalars().all() does on the result of the name query, of
\* which first() has returned None: the list is empty, or
\* ResourceClosedError is raised, by the version of the library
ClosedResultOutcomes == {"empty", "raises"}

\* create_llm_config: the store after it, and its response
create_llm_config(rows, request, closed_result) ==
  IF \E r \in rows : r.name = request.name
    THEN [store |-> rows, response |-> Response(400, 0)]
  ELSE IF request.is_active /\ closed_result = "raises"
    THEN [store |-> rows, response |-> Response(500, 0)]
  ELSE [store |-> rows \cup {Row(NewId(rows), request.name, request.is_active)},
        response |-> Response(200, NewId(rows))]

\* update_llm_config: the rows of the session after the assignments
UpdateRows(rows, config_id, request) ==
  LET config == RowOf(rows, config_id)
  IN {IF r.id = config_id THEN Row(r.id, request.name, request.is_active)
      ELSE IF request.is_active /\ ~config.is_active /\ r.is_active
        THEN Row(r.id, r.name, FALSE)
      ELSE r : r \in rows}

\* update_llm_config; a name that another row has fails the flush
update_llm_config(rows, config_id, request) ==
  IF config_id \notin Ids(rows)
    THEN [store |-> rows, response |-> Response(404, 0)]
  ELSE LET updated == Flush(rows, rows, UpdateRows(rows, config_id, request))
       IN IF ~NamesAreUnique(updated)
            THEN [store |-> rows, response |-> Response(500, 0)]
          ELSE [store |-> updated, response |-> Response(200, config_id)]

\* delete_llm_config
delete_llm_config(rows, config_id) ==
  [store |-> {r \in rows : r.id # config_id}, response |-> Response(200, 0)]

\* the loop of activate_llm_config that leaves the other rows as they are
ActivateRowsTargetOnly(rows, config_id) ==
  {Row(c.id, c.name, c.is_active \/ c.id = config_id) : c \in rows}

\* the loop of activate_llm_config over the rows of the session
ActivateRows(rows, config_id) ==
  {Row(c.id, c.name, c.id = config_id) : c \in rows}

\* activate_llm_config
activate_llm_config(rows, config_id) ==
  IF config_id \notin Ids(rows)
    THEN [store |-> rows, response |-> Response(404, 0)]
  ELSE [store |-> Flush(rows, rows, ActivateRows(rows, config_id)),
        response |-> Response(200, config_id)]

(***************************************************************************)
(* Requests of the settings routes, one at a time, from the empty table    *)
(***************************************************************************)
ConfigNamesOfRequests == {"openai", "local", "claude"}
ConfigIds == 1..(MaxConfigs + 1)

ConfigRequests == [name : ConfigNamesOfRequests, is_active : BOOLEAN]

InitSettings ==
  /\ op = "settings"
  /\ arg = None
  /\ ret = None
  /\ pc = "idle"
  /\ store = EmptyStore
  /\ sessions = NoSessions

\* the request is answered and the store is what the route has committed
Answered(route, config_id, request, result) ==
  /\ op = "settings"
  /\ arg' = [route |-> route, config_id |-> config_id, request |-> request]
  /\ ret' = result.response
  /\ store' = result.store
  /\ UNCHANGED <<op, pc, sessions>>

CreateLLMConfig ==
  /\ Cardinality(store) < MaxConfigs
  /\ \E request \in ConfigRequests, closed_result \in ClosedResultOutcomes :
       Answered("create", 0, request, create_llm_config(store, request, closed_result))

UpdateLLMConfig ==
  \E config_id \in ConfigIds, request \in ConfigRequests :
    Answered("update", config_id, request, update_llm_config(store, config_id, request))

DeleteLLMConfig ==
  \E config_id \in ConfigIds :
    Answered("delete", config_id, None, delete_llm_config(store, config_id))

ActivateLLMConfig ==
  \E config_id \in ConfigIds :
    Answered("activate", config_id, None, activate_llm_config(store, config_id))

NextSettings ==
  CreateLLMConfig \/ UpdateLLMConfig \/ DeleteLLMConfig \/ ActivateLLMConfig

SpecSettings == InitSettings /\ [][NextSettings]_vars

(***************************************************************************)
(* Properties of the settings routes                                       *)
(***************************************************************************)
ActiveIds(rows) == {r.id : r \in {x \in rows : x.is_active}}

\* C28: from the empty store, after any requests of create, update,
\* activate and delete made one at a time, at most one stored connection
\* is active; a create with is_active made while another connection is
\* active stores the new connection and leaves it the only active one.
C28_AtMostOneActive ==
  op = "settings" =>
    /\ Cardinality(ActiveIds(store)) <= 1
    /\ (/\ arg # None
        /\ arg.route = "create"
        /\ arg.request.is_active
        /\ ret.status # 400
        /\ (ret.status = 200 \/ ActiveIds(store) # {}))
         => ret.status = 200 /\ ActiveIds(store) = {ret.id}

\* C29: activate_llm_config(id) of a stored id leaves id active and every
\* other stored connection inactive, whatever was active before, and
\* changes nothing else; of an id that is not stored it answers 404 and
\* changes no stored connection.
C29_ActivateMakesOnlyActive ==
  [][(op = "settings" /\ arg'.route = "activate") =>
       IF arg'.config_id \in Ids(store)
         THEN /\ ret'.status = 200
              /\ ActiveIds(store') = {arg'.config_id}
              /\ {<<r.id, r.name>> : r \in store'} = {<<r.id, r.name>> : r \in store}
         ELSE /\ ret'.status = 404
              /\ store' = store]_vars

\* C29 happens: of two stored connections the second has been activated
C29_Witness ==
  /\ op = "settings"
  /\ arg # None
  /\ arg.route = "activate"
  /\ arg.config_id = 2
  /\ ret.status = 200
  /\ Cardinality(store) = 2
  /\ ActiveIds(store) = {2}

(***************************************************************************)
(* Two requests of activate_llm_config that run together.  Each request    *)
(* has its own session (get_session); a request gives way to the other at  *)
(* each await: after the query of its configuration, after the query of    *)
(* all the rows, and at the commit.  A query reads the committed rows; the *)
(* commit writes the changed attributes of the session's rows at once.     *)
(***************************************************************************)
ActivateRequests == 1..2

\* the name of the connection that was created with the id
StoredName(id) == <<"openai", "local", "claude", "azure">>[id]

\* the tables of MaxConfigs connections, any of them active
StoredConfigs ==
  {{Row(id, StoredName(id), active[id]) : id \in 1..MaxConfigs} :
     active \in [1..MaxConfigs -> BOOLEAN]}

\* a session: the position of its request, the rows of its identity map as
\* they were loaded and as they are now
Session(position, loaded, current) ==
  [pc |-> position, loaded |-> loaded, current |-> current]

InitActivate ==
  /\ op = "activate_llm_config"
  /\ arg \in [ActivateRequests -> ConfigIds]
  /\ ret = <<>>
  /\ pc = "running"
  /\ store \in StoredConfigs
  /\ sessions = [i \in ActivateRequests |-> Session("start", {}, {})]

\* "done" once no request is running
Position(running) ==
  IF \A i \in ActivateRequests : running[i].pc \in {"done", "failed"}
    THEN "done" ELSE "running"

\* the query of the configuration: 404 when it is not stored
SelectConfig(i) ==
  /\ op = "activate_llm_config"
  /\ sessions[i].pc = "start"
  /\ IF arg[i] \in Ids(store)
       THEN /\ sessions' = [sessions EXCEPT
                              ![i] = Session("selected", {RowOf(store, arg[i])},
                                             {RowOf(store, arg[i])})]
            /\ ret' = ret
       ELSE /\ sessions' = [sessions EXCEPT ![i] = Session("failed", {}, {})]
            /\ ret' = Append(ret, [request |-> i, status |-> 404])
  /\ pc' = Position(sessions')
  /\ UNCHANGED <<op, arg, store>>

\* the query of all the rows, which leaves a row that the session holds as
\* it was loaded, and the loop over the rows
SelectAll(i) ==
  /\ op = "activate_llm_config"
  /\ sessions[i].pc = "selected"
  /\ LET loaded == sessions[i].loaded
                     \cup {r \in store : r.id \notin Ids(sessions[i].loaded)}
     IN sessions' = [sessions EXCEPT
                       ![i] = Session("loaded", loaded, ActivateRows(loaded, arg[i]))]
  /\ UNCHANGED <<op, arg, ret, pc, store>>

\* session.commit() and the response
Commit(i) ==
  /\ op = "activate_llm_config"
  /\ sessions[i].pc = "loaded"
  /\ store' = Flush(store, sessions[i].loaded, sessions[i].current)
  /\ sessions' = [sessions EXCEPT ![i].pc = "done"]
  /\ ret' = Append(ret, [request |-> i, status |-> 200])
  /\ pc' = Position(sessions')
  /\ UNCHANGED <<op, arg>>

NextActivate ==
  \E i \in ActivateRequests : SelectConfig(i) \/ SelectAll(i) \/ Commit(i)

SpecActivate == InitActivate /\ [][NextActivate]_vars

(***************************************************************************)
(* Properties of the requests that run together                            *)
(***************************************************************************)
\* both requests are answered, and they were for two stored configurations
BothActivated ==
  /\ op = "activate_llm_config"
  /\ pc = "done"
  /\ arg[1] # arg[2]
  /\ \A i \in ActivateRequests : arg[i] \in Ids(store)

\* C30: when two requests of activate_llm_config for two stored
\* configurations run together, each in its session, the committed store
\* ends with one active configuration, that of the request that committed
\* last.
C30_LastCommitWins ==
  BothActivated =>
    /\ Len(ret) = 2
    /\ \A k \in 1..2 : ret[k].status = 200
    /\ ActiveIds(store) = {arg[ret[2].request]}

=============================================================================
